---------------------------- MODULE Spec2Model ----------------------------
(***************************************************************************)
(* Lead resolution pipeline of GoUP: the dedup cache (URL normalisation,   *)
(* lookup, commit), the qualification scorer and the pipeline orchestrator *)
(* process_url.  Strings are sequences of one-character strings so that    *)
(* lower(), strip(), replace(), split() and the `in` substring test are    *)
(* computed character by character, as Python computes them.               *)
(***************************************************************************)
EXTENDS Integers, Sequences, FiniteSets, TLC

(***************************************************************************)
(* Bounds of the model.                                                    *)
(***************************************************************************)
MaxTokens == 3
MaxHostLen == 3
MaxNameTokens == 2

(***************************************************************************)
(* Python string primitives used by the source.                            *)
(***************************************************************************)
LowerLetters == <<"a", "b", "c", "d", "e", "f", "g", "h", "i", "j", "k", "l", "m", "n", "o", "p", "q", "r", "s", "t", "u", "v", "w", "x", "y", "z">>

UpperLetters == <<"A", "B", "C", "D", "E", "F", "G", "H", "I", "J", "K", "L", "M", "N", "O", "P", "Q", "R", "S", "T", "U", "V", "W", "X", "Y", "Z">>

\* upper-case letter -> lower-case letter, and back
ToLower == [c \in {UpperLetters[i] : i \in 1..26} |->
               LowerLetters[CHOOSE i \in 1..26 : UpperLetters[i] = c]]

ToUpper == [c \in {LowerLetters[i] : i \in 1..26} |->
               UpperLetters[CHOOSE i \in 1..26 : LowerLetters[i] = c]]

LowerCh(c) == IF c \in DOMAIN ToLower THEN ToLower[c] ELSE c

UpperCh(c) == IF c \in DOMAIN ToUpper THEN ToUpper[c] ELSE c

\* str.lower()
StrLower(s) == [i \in 1..Len(s) |-> LowerCh(s[i])]

\* str.upper()
StrUpper(s) == [i \in 1..Len(s) |-> UpperCh(s[i])]

Whitespace == {" ", "\t", "\n"}

RECURSIVE LStrip(_)
LStrip(s) ==
    IF s # <<>> /\ s[1] \in Whitespace THEN LStrip(Tail(s)) ELSE s

RECURSIVE RStrip(_)
RStrip(s) ==
    IF s # <<>> /\ s[Len(s)] \in Whitespace
    THEN RStrip(SubSeq(s, 1, Len(s) - 1))
    ELSE s

\* str.strip()
StrStrip(s) == RStrip(LStrip(s))

\* s.startswith(p)
StartsWith(s, p) == Len(s) >= Len(p) /\ SubSeq(s, 1, Len(p)) = p

\* s.replace(old, ""): the non-overlapping occurrences of old, found left
\* to right, are deleted in one pass (old is not empty).
RECURSIVE StrRemove(_, _)
StrRemove(s, old) ==
    IF Len(s) < Len(old) THEN s
    ELSE IF StartsWith(s, old)
         THEN StrRemove(SubSeq(s, Len(old) + 1, Len(s)), old)
         ELSE <<s[1]>> \o StrRemove(Tail(s), old)

\* s.split(sep)[0] for a one-character separator
RECURSIVE SplitHead(_, _)
SplitHead(s, sep) ==
    IF s = <<>> \/ s[1] = sep THEN <<>>
    ELSE <<s[1]>> \o SplitHead(Tail(s), sep)

\* sub in s
StrContains(s, sub) ==
    \E i \in 0..(Len(s) - Len(sub)) : SubSeq(s, i + 1, i + Len(sub)) = sub

HttpsScheme == <<"h", "t", "t", "p", "s", ":", "/", "/">>

HttpScheme == <<"h", "t", "t", "p", ":", "/", "/">>

WwwPrefix == <<"w", "w", "w", ".">>

(***************************************************************************)
(* DeduplicationCache.normalize_url                                        *)
(***************************************************************************)
normalize_url_keepcase(url) ==
    LET u1 == StrStrip(url)
        u2 == StrRemove(StrRemove(u1, HttpsScheme), HttpScheme)
        u3 == StrRemove(u2, WwwPrefix)
        d1 == SplitHead(u3, "/")
        d2 == SplitHead(d1, "?")
        d3 == SplitHead(d2, "#")
    IN  StrStrip(d3)

normalize_url(url) ==
    LET u1 == StrStrip(StrLower(url))
        u2 == StrRemove(StrRemove(u1, HttpsScheme), HttpScheme)
        u3 == StrRemove(u2, WwwPrefix)
        d1 == SplitHead(u3, "/")
        d2 == SplitHead(d1, "?")
        d3 == SplitHead(d2, "#")
    IN  StrStrip(d3)

(***************************************************************************)
(* Python values.  None is a value no string equals; an Optional[int] is   *)
(* <<>> (None) or <<n>>; an optional object is <<>> or <<object>>.         *)
(***************************************************************************)
None == <<"None">>

\* bool(v) of an Optional[str]: None and "" are falsy
Truthy(v) == v # None /\ v # <<>>

\* bool(v) of an Optional[int]: None and 0 are falsy
TruthyInt(v) == v # <<>> /\ v[1] # 0

(***************************************************************************)
(* constants.py                                                            *)
(***************************************************************************)
TARGET_COUNTRIES ==
    { <<"U", "S">>, <<"U", "S", "A">>, <<"U", "K">>, <<"G", "B">>,
      <<"I", "E">>, <<"D", "E">>, <<"A", "T">>, <<"C", "H">>, <<"F", "R">>,
      <<"N", "L">>, <<"B", "E">>, <<"E", "S">>, <<"I", "T">>, <<"P", "T">>,
      <<"F", "I">>, <<"S", "E">>, <<"D", "K">>, <<"N", "O">>, <<"C", "A">>,
      <<"A", "U">> }

COMPANY_SIZE_MIN == 10

COMPANY_SIZE_SWEET_SPOT_MIN == 20

COMPANY_SIZE_SWEET_SPOT_MAX == 50

COMPANY_SIZE_MAX == 200

EXCLUSION_LIST == <<
    <<"g", "l", "a", "s", "s", "e", "s", "u", "s", "a">>,
    <<"e", "y", "e", "b", "u", "y", "d", "i", "r", "e", "c", "t">>,
    <<"z", "e", "n", "n", "i", " ", "o", "p", "t", "i", "c", "a", "l">>,
    <<"z", "e", "n", "n", "i">>,
    <<"s", "u", "n", "g", "l", "a", "s", "s", " ", "h", "u", "t">>,
    <<"l", "e", "n", "s", "c", "r", "a", "f", "t", "e", "r", "s">>,
    <<"w", "a", "r", "b", "y", " ", "p", "a", "r", "k", "e", "r">>,
    <<"s", "p", "e", "c", "s", "a", "v", "e", "r", "s">>,
    <<"f", "i", "e", "l", "m", "a", "n", "n">>,
    <<"a", "p", "o", "l", "l", "o", " ", "o", "p", "t", "i", "k">> >>

SCORING_WEIGHTS ==
    [ platform_shopify |-> 20,
      company_size_sweet_spot |-> 15,
      company_size_good |-> 10,
      target_geography |-> 15,
      ecommerce_presence |-> 10,
      no_rx_eyewear |-> 15,
      decision_maker_found |-> 10,
      email_verified |-> 5 ]

QUALIFICATION_THRESHOLD == 50

(***************************************************************************)
(* LeadScorer                                                              *)
(***************************************************************************)
\* LeadScorer.__init__: the scorer's configuration.  exclusion_list = <<>>
\* stands for the default argument None (and for an empty list: both are
\* falsy and select EXCLUSION_LIST).
LeadScorer(qualification_threshold, exclusion_list) ==
    [ threshold |-> qualification_threshold,
      exclusion_list |->
          LET l == IF exclusion_list # <<>> THEN exclusion_list ELSE EXCLUSION_LIST
          IN  [i \in 1..Len(l) |-> StrLower(l[i])] ]

_is_excluded_exact(self, company_name) ==
    \E i \in 1..Len(self.exclusion_list) :
        self.exclusion_list[i] = StrLower(company_name)

_is_excluded(self, company_name) ==
    \E i \in 1..Len(self.exclusion_list) :
        StrContains(StrLower(company_name), self.exclusion_list[i])

rx_terms == <<
    <<"p", "r", "e", "s", "c", "r", "i", "p", "t", "i", "o", "n">>,
    <<"r", "x", " ", "l", "e", "n", "s", "e", "s">>,
    <<"o", "p", "t", "i", "c", "a", "l", " ", "l", "e", "n", "s", "e", "s">>,
    <<"v", "i", "s", "i", "o", "n", " ", "c", "a", "r", "e">> >>

_sells_prescription_eyewear(company) ==
    /\ Truthy(company.description)
    /\ \E i \in 1..Len(rx_terms) :
           StrContains(StrLower(company.description), rx_terms[i])

\* A value stored in scoring_breakdown: an int weight, or the bool True of
\* the "excluded" marker.  n is the value as a Python number (True == 1).
IntValue(n) == [type |-> "int", n |-> n]

BoolValue(b) == [type |-> "bool", n |-> IF b THEN 1 ELSE 0]

_generate_fit_notes(breakdown, total_score, qualified) ==
    LET has(k) == k \in DOMAIN breakdown
        strengths ==
            (IF has("platform_shopify") THEN <<"Shopify platform">> ELSE <<>>)
            \o (IF has("company_size_sweet_spot") THEN <<"ideal company size">> ELSE <<>>)
            \o (IF has("target_geography") THEN <<"target geography">> ELSE <<>>)
            \o (IF has("decision_maker_found") THEN <<"decision maker identified">> ELSE <<>>)
        gaps ==
            (IF ~has("platform_shopify") THEN <<"not on Shopify">> ELSE <<>>)
            \o (IF ~has("decision_maker_found") THEN <<"no decision maker found">> ELSE <<>>)
            \o (IF ~has("email_verified") THEN <<"email not verified">> ELSE <<>>)
        notes ==
            (IF strengths # <<>> THEN <<[label |-> "Strengths", items |-> strengths]>> ELSE <<>>)
            \o (IF gaps # <<>> /\ ~qualified THEN <<[label |-> "Gaps", items |-> gaps]>> ELSE <<>>)
    IN  IF notes # <<>> THEN notes ELSE <<[label |-> "Scoring complete", items |-> <<>>]>>

\* both size tiers awarded to a company in the sweet spot
Criteria_bothTiers(lead) ==
    LET company == lead.company
        dm == lead.decision_maker
        emp == company.employee_count
        sweet == /\ TruthyInt(emp)
                 /\ COMPANY_SIZE_SWEET_SPOT_MIN <= emp[1]
                 /\ emp[1] <= COMPANY_SIZE_SWEET_SPOT_MAX
    IN  << [key |-> "platform_shopify", holds |-> company.platform = "shopify"],
           [key |-> "company_size_sweet_spot", holds |-> sweet],
           [key |-> "company_size_good",
            holds |-> /\ TruthyInt(emp)
                      /\ COMPANY_SIZE_MIN <= emp[1]
                      /\ emp[1] <= COMPANY_SIZE_MAX],
           [key |-> "target_geography",
            holds |-> /\ Truthy(company.country)
                      /\ StrUpper(company.country) \in TARGET_COUNTRIES],
           [key |-> "ecommerce_presence",
            holds |-> Truthy(company.shopify_url) \/ company.platform = "shopify"],
           [key |-> "no_rx_eyewear", holds |-> ~_sells_prescription_eyewear(company)],
           [key |-> "decision_maker_found", holds |-> dm # <<>> /\ Truthy(dm[1].name)],
           [key |-> "email_verified", holds |-> dm # <<>> /\ dm[1].email_verified] >>

\* The criteria of score(), in evaluation order: the breakdown key each
\* records and whether its condition holds for the lead.
Criteria(lead) ==
    LET company == lead.company
        dm == lead.decision_maker
        emp == company.employee_count
        sweet == /\ TruthyInt(emp)
                 /\ COMPANY_SIZE_SWEET_SPOT_MIN <= emp[1]
                 /\ emp[1] <= COMPANY_SIZE_SWEET_SPOT_MAX
    IN  << [key |-> "platform_shopify", holds |-> company.platform = "shopify"],
           [key |-> "company_size_sweet_spot", holds |-> sweet],
           [key |-> "company_size_good",
            holds |-> /\ TruthyInt(emp)
                      /\ ~sweet
                      /\ COMPANY_SIZE_MIN <= emp[1]
                      /\ emp[1] <= COMPANY_SIZE_MAX],
           [key |-> "target_geography",
            holds |-> /\ Truthy(company.country)
                      /\ StrUpper(company.country) \in TARGET_COUNTRIES],
           [key |-> "ecommerce_presence",
            holds |-> Truthy(company.shopify_url) \/ company.platform = "shopify"],
           [key |-> "no_rx_eyewear", holds |-> ~_sells_prescription_eyewear(company)],
           [key |-> "decision_maker_found", holds |-> dm # <<>> /\ Truthy(dm[1].name)],
           [key |-> "email_verified", holds |-> dm # <<>> /\ dm[1].email_verified] >>

RECURSIVE TotalAfter_overwrite(_, _)
TotalAfter_overwrite(cs, n) ==
    IF n = 0 THEN 0
    ELSE IF cs[n].holds THEN SCORING_WEIGHTS[cs[n].key]
         ELSE TotalAfter_overwrite(cs, n - 1)

\* total_score after the first n criteria: total_score += weight
RECURSIVE TotalAfter(_, _)
TotalAfter(cs, n) ==
    IF n = 0 THEN 0
    ELSE TotalAfter(cs, n - 1) + (IF cs[n].holds THEN SCORING_WEIGHTS[cs[n].key] ELSE 0)

\* breakdown after all criteria: breakdown[key] = weight
BreakdownOf(cs) ==
    [ k \in { cs[i].key : i \in { j \in 1..Len(cs) : cs[j].holds } } |->
        IntValue(SCORING_WEIGHTS[k]) ]

\* LeadScorer.score: the Qualification it stores in the lead
score_strict(self, lead) ==
    IF _is_excluded(self, lead.company.name)
    THEN [ score |-> 0,
           qualified |-> FALSE,
           fit_notes |-> <<[label |-> "Excluded: Company is in exclusion list", items |-> <<>>]>>,
           scoring_breakdown |-> [k \in {"excluded"} |-> BoolValue(TRUE)] ]
    ELSE LET cs == Criteria(lead)
             total_score == TotalAfter(cs, Len(cs))
             breakdown == BreakdownOf(cs)
             qualified == total_score > self.threshold
         IN  [ score |-> total_score,
               qualified |-> qualified,
               fit_notes |-> _generate_fit_notes(breakdown, total_score, qualified),
               scoring_breakdown |-> breakdown ]

score(self, lead) ==
    IF _is_excluded(self, lead.company.name)
    THEN [ score |-> 0,
           qualified |-> FALSE,
           fit_notes |-> <<[label |-> "Excluded: Company is in exclusion list", items |-> <<>>]>>,
           scoring_breakdown |-> [k \in {"excluded"} |-> BoolValue(TRUE)] ]
    ELSE LET cs == Criteria(lead)
             total_score == TotalAfter(cs, Len(cs))
             breakdown == BreakdownOf(cs)
             qualified == total_score >= self.threshold
         IN  [ score |-> total_score,
               qualified |-> qualified,
               fit_notes |-> _generate_fit_notes(breakdown, total_score, qualified),
               scoring_breakdown |-> breakdown ]

(***************************************************************************)
(* ProductValidator.validate_eyewear_store                                 *)
(***************************************************************************)
\* MIN_EYEWEAR_RATIO = 0.30, in percent
MIN_EYEWEAR_RATIO == 30

\* str(n) of a non-negative int
RECURSIVE IntToStr(_)
IntToStr(n) ==
    LET digit == <<"0", "1", "2", "3", "4", "5", "6", "7", "8", "9">>[(n % 10) + 1]
    IN  IF n < 10 THEN <<digit>> ELSE IntToStr(n \div 10) \o <<digit>>

\* f"{num/den:.0%}": the ratio times 100, rounded to the nearest integer
\* (ties to the even one), followed by the percent sign
FormatPercent(num, den) ==
    LET q == (100 * num) \div den
        r == (100 * num) % den
        n == IF 2 * r < den THEN q
             ELSE IF 2 * r > den THEN q + 1
             ELSE IF q % 2 = 0 THEN q ELSE q + 1
    IN  IntToStr(n) \o <<"%">>

MsgCannotAccess ==
    <<"C", "a", "n", "n", "o", "t", " ", "a", "c", "c", "e", "s", "s", " ",
      "p", "r", "o", "d", "u", "c", "t", "s", ".", "j", "s", "o", "n">>

MsgNoProducts ==
    <<"N", "o", " ", "p", "r", "o", "d", "u", "c", "t", "s", " ", "f", "o",
      "u", "n", "d">>

MsgOnly ==
    <<"O", "n", "l", "y", " ">>

MsgEyewearMinimum ==
    <<" ", "e", "y", "e", "w", "e", "a", "r", " ", "p", "r", "o", "d", "u",
      "c", "t", "s", " ", "(", "m", "i", "n", "i", "m", "u", "m", " ">>

MsgRequired ==
    <<" ", "r", "e", "q", "u", "i", "r", "e", "d", ")">>

MsgErrorAnalyzing ==
    <<"E", "r", "r", "o", "r", " ", "a", "n", "a", "l", "y", "z", "i", "n",
      "g", " ", "p", "r", "o", "d", "u", "c", "t", "s", ":", " ">>

MsgNotAnEyewearStore ==
    <<"N", "o", "t", " ", "a", "n", " ", "e", "y", "e", "w", "e", "a", "r",
      " ", "s", "t", "o", "r", "e">>

\* The number of products the loop counts as eyewear.  A product is
\* "negative" (a negative keyword matches), "eyewear" (an eyewear indicator
\* or an eyewear product type matches) or "other".
RECURSIVE CountEyewear(_)
CountEyewear(products) ==
    IF products = <<>> THEN 0
    ELSE (IF Head(products) = "eyewear" THEN 1 ELSE 0) + CountEyewear(Tail(products))

\* eyewear_ratio is kept as the fraction num/den; 0.0 is 0/1.
ValidationResult(is_store, num, den, total, eyewear, reason) ==
    [ is_eyewear_store |-> is_store,
      eyewear_ratio |-> [num |-> num, den |-> den],
      total_products |-> total,
      eyewear_products |-> eyewear,
      rejection_reason |-> reason ]

validate_eyewear_store_terse(response) ==
    IF response.status = "not_200"
    THEN ValidationResult(FALSE, 0, 1, 0, 0, MsgCannotAccess)
    ELSE IF response.status = "raises"
    THEN ValidationResult(FALSE, 0, 1, 0, 0, MsgErrorAnalyzing \o response.error)
    ELSE IF response.products = <<>>
    THEN ValidationResult(FALSE, 0, 1, 0, 0, MsgNoProducts)
    ELSE IF response.status = "raises_in_loop"
    THEN ValidationResult(FALSE, 0, 1, Len(response.products), 0,
                          MsgErrorAnalyzing \o response.error)
    ELSE LET total == Len(response.products)
             eyewear_count == CountEyewear(response.products)
         IN  IF 100 * eyewear_count >= MIN_EYEWEAR_RATIO * total
             THEN ValidationResult(TRUE, eyewear_count, total, total, eyewear_count, None)
             ELSE ValidationResult(FALSE, eyewear_count, total, total, eyewear_count,
                                   MsgNotAnEyewearStore)

\* response: what fetching and reading /products.json gives.
\*   status "not_200": a non-200 answer; "raises": the request or the JSON
\*   decoding raises; "ok": products were read and analysed;
\*   "raises_in_loop": a malformed product makes the analysis raise.
validate_eyewear_store(response) ==
    IF response.status = "not_200"
    THEN ValidationResult(FALSE, 0, 1, 0, 0, MsgCannotAccess)
    ELSE IF response.status = "raises"
    THEN ValidationResult(FALSE, 0, 1, 0, 0, MsgErrorAnalyzing \o response.error)
    ELSE IF response.products = <<>>
    THEN ValidationResult(FALSE, 0, 1, 0, 0, MsgNoProducts)
    ELSE IF response.status = "raises_in_loop"
    THEN ValidationResult(FALSE, 0, 1, Len(response.products), 0,
                          MsgErrorAnalyzing \o response.error)
    ELSE LET total == Len(response.products)
             eyewear_count == CountEyewear(response.products)
         IN  IF 100 * eyewear_count >= MIN_EYEWEAR_RATIO * total
             THEN ValidationResult(TRUE, eyewear_count, total, total, eyewear_count, None)
             ELSE ValidationResult(FALSE, eyewear_count, total, total, eyewear_count,
                                   MsgOnly \o FormatPercent(eyewear_count, total)
                                   \o MsgEyewearMinimum
                                   \o FormatPercent(MIN_EYEWEAR_RATIO, 100)
                                   \o MsgRequired)

(***************************************************************************)
(* ShopifyVerifier                                                         *)
(***************************************************************************)
\* the "Normalize URL" step of verify: result["store_url"]
StoreUrl(url) ==
    IF StartsWith(url, HttpScheme) \/ StartsWith(url, HttpsScheme)
    THEN url ELSE HttpsScheme \o url

\* verify(url): outcome is what the two detection methods give:
\* "shopify" (one of them matches), "custom" (none does), "error" (a
\* request raises).  detection_method and error text are not kept.
verify(url, outcome) ==
    [ is_shopify |-> outcome = "shopify",
      platform |-> IF outcome = "shopify" THEN "shopify"
                   ELSE IF outcome = "custom" THEN "custom" ELSE "unknown",
      store_url |-> StoreUrl(url) ]

TLD_COUNTRY_MAP == <<
    [tld |-> <<".", "c", "o", "m">>, country |-> None],
    [tld |-> <<".", "c", "o", ".", "u", "k">>, country |-> <<"G", "B">>],
    [tld |-> <<".", "u", "k">>, country |-> <<"G", "B">>],
    [tld |-> <<".", "d", "e">>, country |-> <<"D", "E">>],
    [tld |-> <<".", "f", "r">>, country |-> <<"F", "R">>],
    [tld |-> <<".", "e", "s">>, country |-> <<"E", "S">>],
    [tld |-> <<".", "i", "t">>, country |-> <<"I", "T">>],
    [tld |-> <<".", "n", "l">>, country |-> <<"N", "L">>],
    [tld |-> <<".", "b", "e">>, country |-> <<"B", "E">>],
    [tld |-> <<".", "a", "t">>, country |-> <<"A", "T">>],
    [tld |-> <<".", "c", "h">>, country |-> <<"C", "H">>],
    [tld |-> <<".", "s", "e">>, country |-> <<"S", "E">>],
    [tld |-> <<".", "n", "o">>, country |-> <<"N", "O">>],
    [tld |-> <<".", "d", "k">>, country |-> <<"D", "K">>],
    [tld |-> <<".", "f", "i">>, country |-> <<"F", "I">>],
    [tld |-> <<".", "p", "t">>, country |-> <<"P", "T">>],
    [tld |-> <<".", "i", "e">>, country |-> <<"I", "E">>],
    [tld |-> <<".", "p", "l">>, country |-> <<"P", "L">>],
    [tld |-> <<".", "c", "z">>, country |-> <<"C", "Z">>],
    [tld |-> <<".", "h", "u">>, country |-> <<"H", "U">>],
    [tld |-> <<".", "c", "a">>, country |-> <<"C", "A">>],
    [tld |-> <<".", "a", "u">>, country |-> <<"A", "U">>],
    [tld |-> <<".", "n", "z">>, country |-> <<"N", "Z">>],
    [tld |-> <<".", "j", "p">>, country |-> <<"J", "P">>],
    [tld |-> <<".", "s", "g">>, country |-> <<"S", "G">>],
    [tld |-> <<".", "h", "k">>, country |-> <<"H", "K">>],
    [tld |-> <<".", "i", "n">>, country |-> <<"I", "N">>],
    [tld |-> <<".", "b", "r">>, country |-> <<"B", "R">>],
    [tld |-> <<".", "m", "x">>, country |-> <<"M", "X">>],
    [tld |-> <<".", "z", "a">>, country |-> <<"Z", "A">>] >>

\* s.endswith(p)
EndsWith(s, p) == Len(s) >= Len(p) /\ SubSeq(s, Len(s) - Len(p) + 1, Len(s)) = p

\* urlparse(url).netloc of a url that carries a scheme
RECURSIVE AfterSlashes(_)
AfterSlashes(s) ==
    IF Len(s) < 2 THEN <<>>
    ELSE IF s[1] = "/" /\ s[2] = "/" THEN SubSeq(s, 3, Len(s))
    ELSE AfterSlashes(Tail(s))

Netloc(url) == SplitHead(SplitHead(SplitHead(AfterSlashes(url), "/"), "?"), "#")

RECURSIVE FirstTld(_, _)
FirstTld(domain, n) ==
    IF n > Len(TLD_COUNTRY_MAP) THEN None
    ELSE IF EndsWith(domain, TLD_COUNTRY_MAP[n].tld) /\ Truthy(TLD_COUNTRY_MAP[n].country)
         THEN TLD_COUNTRY_MAP[n].country
         ELSE FirstTld(domain, n + 1)

detect_country_from_tld(url) == FirstTld(StrLower(Netloc(StoreUrl(url))), 1)

(***************************************************************************)
(* LeadGenerationPipeline helpers                                          *)
(***************************************************************************)
MyshopifyCom == <<"m", "y", "s", "h", "o", "p", "i", "f", "y", ".", "c", "o", "m">>

\* LeadGenerationPipeline._extract_domain and the LinkedInFinder._extract_domain
\* in force (the second definition in the class)
_extract_domain(url) ==
    LET u1 == StrLower(url)
        u2 == StrRemove(StrRemove(u1, HttpsScheme), HttpScheme)
        u3 == StrRemove(u2, WwwPrefix)
    IN  SplitHead(u3, "/")

IsLetter(c) == c \in DOMAIN ToLower \/ c \in DOMAIN ToUpper

\* str.title()
StrTitle(s) ==
    [ i \in 1..Len(s) |->
        IF i = 1 \/ ~IsLetter(s[i - 1]) THEN UpperCh(s[i]) ELSE LowerCh(s[i]) ]

_extract_company_name(url) == StrTitle(SplitHead(_extract_domain(url), "."))

\* the test of line 67 negated: the platform is the target platform
IsTargetPlatform_notCustom(platform) == platform # "custom"

IsTargetPlatform(platform) == platform = "shopify"

\* the test of line 72: the segment needs its product category confirmed
NeedsValidation(segment, skip_validation) ==
    ~skip_validation /\ segment \in {"eyewear", "sunglasses"}

\* the test of lines 118 and 204
DomainUsable(domain) == Truthy(domain) /\ ~StrContains(domain, MyshopifyCom)

invalid_domains == <<
    <<"m", "y", "s", "h", "o", "p", "i", "f", "y", ".", "c", "o", "m">>,
    <<"l", "i", "n", "k", "e", "d", "i", "n", ".", "c", "o", "m">>,
    <<"l", "i", "n", "k", "t", "r", ".", "e", "e">>,
    <<"l", "i", "n", "k", "t", "r", "e", "e", ".", "c", "o", "m">>,
    <<"f", "a", "c", "e", "b", "o", "o", "k", ".", "c", "o", "m">>,
    <<"i", "n", "s", "t", "a", "g", "r", "a", "m", ".", "c", "o", "m">>,
    <<"t", "w", "i", "t", "t", "e", "r", ".", "c", "o", "m">>,
    <<"x", ".", "c", "o", "m">>,
    <<"y", "o", "u", "t", "u", "b", "e", ".", "c", "o", "m">>,
    <<"t", "i", "k", "t", "o", "k", ".", "c", "o", "m">>,
    <<"b", "i", "t", ".", "l", "y">>,
    <<"g", "o", "o", ".", "g", "l">> >>

(***************************************************************************)
(* DeduplicationCache: _cache is a function from normalized domains to     *)
(* entries; processed_at is not modelled.                                  *)
(***************************************************************************)
is_processed_raw(cache, url) == url \in DOMAIN cache

is_processed(cache, url) == normalize_url(url) \in DOMAIN cache

get_lead_id(cache, url) ==
    IF normalize_url(url) \in DOMAIN cache
    THEN cache[normalize_url(url)].lead_id ELSE None

mark_processed_raw(cache, url, lead_id) ==
    [ d \in DOMAIN cache \cup {url} |->
        IF d = url THEN [lead_id |-> lead_id] ELSE cache[d] ]

\* self._cache after mark_processed(url, lead_id)
mark_processed(cache, url, lead_id) ==
    [ d \in DOMAIN cache \cup {normalize_url(url)} |->
        IF d = normalize_url(url) THEN [lead_id |-> lead_id] ELSE cache[d] ]

(***************************************************************************)
(* State.                                                                  *)
(*   nurl, nbase, nres, nbaseRes: a call sequence on normalize_url.  nurl  *)
(*   is the argument, nres the results of applying normalize_url to it     *)
(*   once and then to its own result; when nurl was built as a variant of  *)
(*   the host nbase (nkind = "variant"), nbaseRes holds normalize_url of   *)
(*   that host.                                                            *)
(*   sscorer, slead, spc: a LeadScorer (its configuration), the lead     *)
(*   handed to score() and whether score() has run on it.                  *)
(***************************************************************************)
VARIABLES nkind, nurl, nbase, nres, nbaseRes, sscorer, slead, spc,
          pc, args, cache, disk, verification, validation, store_info,
          hunter_data, domain, lead, calls, marks, result, cache0, observed,
          cfile, cinst, clast, cops, chist,
          burls, bforce, bnext, bleads, blog, bcache, bpc, bcache0,
          gkind, ginput, gresult, gpc

normVars == <<nkind, nurl, nbase, nres, nbaseRes>>

scoreVars == <<sscorer, slead, spc>>

\* process_url: its position (pc), its arguments, the dedup cache in memory
\* and on disk, its locals, and a record of the run: the collaborators
\* called, the number of mark_processed calls, how the call ended, and the
\* cache as it was when the call began.
\* observed keeps what the sources answered in the run: the countries of the
\* storefront's markup, of its currency and of the network record, and the
\* answer of the e-mail lookup.
pipeVars == <<pc, args, cache, disk, verification, validation, store_info,
              hunter_data, domain, lead, calls, marks, result, cache0, observed>>

\* DeduplicationCache on its own: the backing file, the instances built on
\* it, the last mutating call and the number of calls made.
cacheVars == <<cfile, cinst, clast, cops, chist>>

\* process_urls: its arguments, the index of the next candidate, the list
\* it is building, what happened to each candidate so far, and the cache.
batchVars == <<burls, bforce, bnext, bleads, blog, bcache, bpc, bcache0>>

\* One stage of the decision-maker cascade on its own: which stage, what
\* the outside world answers (schema.org person and team pages; the
\* employee dataset; the e-mail records), the list the stage returns.
stageVars == <<gkind, ginput, gresult, gpc>>

vars == <<nkind, nurl, nbase, nres, nbaseRes, sscorer, slead, spc,
          pc, args, cache, disk, verification, validation, store_info,
          hunter_data, domain, lead, calls, marks, result, cache0, observed,
          cfile, cinst, clast, cops, chist,
          burls, bforce, bnext, bleads, blog, bcache, bpc, bcache0,
          gkind, ginput, gresult, gpc>>

\* models.Qualification(): the default a new Lead carries
DefaultQualification ==
    [ score |-> 0, qualified |-> FALSE, fit_notes |-> None,
      scoring_breakdown |-> << >> ]

\* The variables of the specifications that do not use them stay here.
NormIdle ==
    /\ nkind = "none"
    /\ nurl = <<>>
    /\ nbase = <<>>
    /\ nres = <<>>
    /\ nbaseRes = <<>>

ScoreIdle ==
    /\ sscorer = LeadScorer(QUALIFICATION_THRESHOLD, <<>>)
    /\ slead = <<>>
    /\ spc = "none"

EmptyCache == [d \in {} |-> [lead_id |-> ""]]

\* segment=None, among the Segment values "eyewear", "sunglasses", "e-pharmacy"
NoSegment == "none"

NoArgs ==
    [ url |-> <<>>, segment |-> NoSegment, skip_validation |-> FALSE, force |-> FALSE ]

NoObserved ==
    [ schema |-> None, currency |-> None, network |-> None, lookup |-> <<>>,
      searched |-> <<>>, looked_up |-> <<>> ]

PipeIdle ==
    /\ pc = "off"
    /\ args = NoArgs
    /\ cache = EmptyCache
    /\ disk = [readable |-> TRUE, content |-> EmptyCache]
    /\ verification = <<>>
    /\ validation = <<>>
    /\ store_info = <<>>
    /\ hunter_data = <<>>
    /\ domain = None
    /\ lead = <<>>
    /\ calls = {}
    /\ marks = 0
    /\ result = "none"
    /\ cache0 = EmptyCache
    /\ observed = NoObserved

MaxInstances == 2

NoFile == [kind |-> "absent", members |-> EmptyCache]

NoInstance == [status |-> "none", type |-> "dict", items |-> EmptyCache, fresh |-> FALSE]

NoCall ==
    [ op |-> "none", inst |-> 0, url |-> <<>>, lead_id |-> "", raised |-> "none",
      save |-> "none" ]

\* what the instances have done so far: which of them changed their cache,
\* and the domains each marked and has not dropped since
NoHistory == [ writers |-> {}, marked |-> [i \in 1..MaxInstances |-> {}] ]

CacheIdle ==
    /\ chist = NoHistory
    /\ cfile = NoFile
    /\ cinst = [i \in 1..MaxInstances |-> NoInstance]
    /\ clast = NoCall
    /\ cops = 0

\* no stage of the decision-maker cascade has been asked anything
NoStageInput == [ schema |-> <<>>, pages |-> <<>>, employees |-> <<>>, emails |-> <<>> ]

StageIdle ==
    /\ gkind = "none"
    /\ ginput = NoStageInput
    /\ gresult = <<>>
    /\ gpc = "idle"

BatchIdle ==
    /\ burls = <<>>
    /\ bforce = FALSE
    /\ bnext = 0
    /\ bleads = <<>>
    /\ blog = <<>>
    /\ bcache = EmptyCache
    /\ bcache0 = EmptyCache
    /\ bpc = "idle"

RECURSIVE Flatten(_)
Flatten(ts) == IF ts = <<>> THEN <<>> ELSE Head(ts) \o Flatten(Tail(ts))

\* Fragments the raw inputs are assembled from.
UrlTokens ==
    { HttpsScheme, HttpScheme, WwwPrefix, <<"w", "w", "w">>, <<".">>,
      <<"x">>, <<"X">>, <<"/">>, <<"?">>, <<"#">>, <<" ">> }

RawUrls ==
    { Flatten(ts) : ts \in UNION { [1..k -> UrlTokens] : k \in 0..MaxTokens } }

HostChars == {"w", "x", "."}

Hosts == UNION { [1..k -> HostChars] : k \in 1..MaxHostLen }

\* d with the letters at the positions in up upper-cased
UpperAt(d, up) == [i \in 1..Len(d) |-> IF i \in up THEN UpperCh(d[i]) ELSE d[i]]

SchemePrefixes == { <<>>, HttpScheme, HttpsScheme, StrUpper(HttpsScheme) }

WwwPrefixes == { <<>>, WwwPrefix, StrUpper(WwwPrefix) }

UrlSuffixes ==
    { <<>>, <<"?", "b", "=", "1">>, <<"#", "f">>,
      <<"/", "a", "?", "b", "=", "1", "#", "w", "w", "w", ".">> }

Paddings == { <<>>, <<" ", "\t">> }

Variant(d, up, scheme, www, suffix, lpad, rpad) ==
    lpad \o scheme \o www \o UpperAt(d, up) \o suffix \o rpad

NormInit ==
    /\ ScoreIdle
    /\ PipeIdle
    /\ CacheIdle
    /\ BatchIdle
    /\ StageIdle
    /\ nres = <<>>
    /\ nbaseRes = <<>>
    /\ \/ /\ nkind = "raw"
          /\ nurl \in RawUrls
          /\ nbase = <<>>
       \/ /\ nkind = "variant"
          /\ nbase \in Hosts
          /\ \E up \in SUBSET (1..MaxHostLen), scheme \in SchemePrefixes,
                www \in WwwPrefixes, suffix \in UrlSuffixes,
                lpad \in Paddings, rpad \in Paddings :
                nurl = Variant(nbase, up, scheme, www, suffix, lpad, rpad)

\* normalize_url(url)
NormalizeUrl ==
    /\ nres = <<>>
    /\ nres' = <<normalize_url(nurl)>>
    /\ UNCHANGED <<nkind, nurl, nbase, nbaseRes>>
    /\ UNCHANGED scoreVars
    /\ UNCHANGED pipeVars
    /\ UNCHANGED <<cacheVars, batchVars, stageVars>>

\* normalize_url(normalize_url(url))
NormalizeAgain ==
    /\ Len(nres) = 1
    /\ nres' = Append(nres, normalize_url(nres[1]))
    /\ UNCHANGED <<nkind, nurl, nbase, nbaseRes>>
    /\ UNCHANGED scoreVars
    /\ UNCHANGED pipeVars
    /\ UNCHANGED <<cacheVars, batchVars, stageVars>>

\* normalize_url(d) for the host d a variant was built from
NormalizeBase ==
    /\ nkind = "variant"
    /\ nbaseRes = <<>>
    /\ nbaseRes' = <<normalize_url(nbase)>>
    /\ UNCHANGED <<nkind, nurl, nbase, nres>>
    /\ UNCHANGED scoreVars
    /\ UNCHANGED pipeVars
    /\ UNCHANGED <<cacheVars, batchVars, stageVars>>

NormNext == NormalizeUrl \/ NormalizeAgain \/ NormalizeBase

SpecNorm == NormInit /\ [][NormNext]_vars

(***************************************************************************)
(* Scoring: score() applied to leads drawn from bounded field sets.        *)
(***************************************************************************)
NameTokens ==
    { <<"Z", "e", "n", "n", "i">>, <<"F", "I", "E", "L">>, <<"m", "a", "n", "n">> }

CompanyNames ==
    { Flatten(ts) : ts \in UNION { [1..k -> NameTokens] : k \in 0..MaxNameTokens } }

EmployeeCounts == { <<>>, <<10>>, <<20>>, <<30>>, <<201>> }

Countries == { None, <<"u", "s">>, <<"B", "R">> }

Descriptions ==
    { None, <<"S", "u", "n", "g", "l", "a", "s", "s", "e", "s">>,
      <<"R", "X", " ", "L", "e", "n", "s", "e", "s">> }

ShopifyUrls == { None, HttpsScheme \o <<"s", ".", "c", "o">> }

PersonName == <<"A", "n", "n">>

EmailAddress == <<"a", "@", "b", ".", "c">>

\* models.DecisionMaker
DecisionMaker(name, email, email_verified) ==
    [ name |-> name, email |-> email, email_verified |-> email_verified ]

ScoredDecisionMakers ==
    { <<>>,
      <<DecisionMaker(<<>>, None, FALSE)>>,
      <<DecisionMaker(PersonName, None, FALSE)>>,
      <<DecisionMaker(PersonName, None, TRUE)>>,
      <<DecisionMaker(PersonName, EmailAddress, TRUE)>> }

Thresholds == { 0, QUALIFICATION_THRESHOLD, QUALIFICATION_THRESHOLD + 1 }

ExclusionArgs == { <<>>, << <<"M", "A", "N", "N">> >> }

ScoreInit ==
    /\ NormIdle
    /\ PipeIdle
    /\ CacheIdle
    /\ BatchIdle
    /\ StageIdle
    /\ spc = "new"
    /\ \E t \in Thresholds, e \in ExclusionArgs : sscorer = LeadScorer(t, e)
    /\ \E name \in CompanyNames, platform \in {"shopify", "custom"},
          employee_count \in EmployeeCounts, country \in Countries,
          description \in Descriptions, shopify_url \in ShopifyUrls,
          dm \in ScoredDecisionMakers :
          slead = [ company |-> [ name |-> name,
                                  platform |-> platform,
                                  employee_count |-> employee_count,
                                  country |-> country,
                                  description |-> description,
                                  shopify_url |-> shopify_url ],
                    decision_maker |-> dm,
                    qualification |-> DefaultQualification ]

\* scorer.score(lead)
ScoreLead ==
    /\ spc = "new"
    /\ slead' = [slead EXCEPT !.qualification = score(sscorer, slead)]
    /\ spc' = "scored"
    /\ UNCHANGED <<sscorer>>
    /\ UNCHANGED normVars
    /\ UNCHANGED pipeVars
    /\ UNCHANGED <<cacheVars, batchVars, stageVars>>

\* a second score(lead) that starts from the qualification already stored
ScoreAgain_accumulating ==
    /\ spc = "scored"
    /\ LET q == score(sscorer, slead)
       IN  slead' = [slead EXCEPT !.qualification =
                        [q EXCEPT !.score = slead.qualification.score + q.score]]
    /\ spc' = "rescored"
    /\ UNCHANGED <<sscorer>>
    /\ UNCHANGED normVars
    /\ UNCHANGED pipeVars
    /\ UNCHANGED <<cacheVars, batchVars, stageVars>>

\* scorer.score(lead) on the lead it has already scored: breakdown and
\* total_score start empty again, lead.qualification is assigned anew
ScoreAgain ==
    /\ spc = "scored"
    /\ slead' = [slead EXCEPT !.qualification = score(sscorer, slead)]
    /\ spc' = "rescored"
    /\ UNCHANGED <<sscorer>>
    /\ UNCHANGED normVars
    /\ UNCHANGED pipeVars
    /\ UNCHANGED <<cacheVars, batchVars, stageVars>>

ScoreNext ==
    \/ ScoreLead
    \/ ScoreAgain

SpecScore == ScoreInit /\ [][ScoreNext]_vars

(***************************************************************************)
(* LeadGenerationPipeline.process_url, one call.                           *)
(***************************************************************************)
MaxProducts == 4

UrlBare == <<"x", ".", "f", "r">>

UrlFull == <<"h", "t", "t", "p", "s", ":", "/", "/", "w", "w", "w", ".", "X", ".", "f", "r", "/", "p", "?", "q", "=", "1">>

UrlMyshopify == <<"s", ".", "m", "y", "s", "h", "o", "p", "i", "f", "y", ".", "c", "o", "m">>

\* The calls of process_url(url, segment, skip_validation, force)
ProcessCalls ==
    { [url |-> UrlBare, segment |-> NoSegment, skip_validation |-> FALSE, force |-> FALSE],
      [url |-> UrlFull, segment |-> "eyewear", skip_validation |-> FALSE, force |-> FALSE],
      [url |-> UrlFull, segment |-> "sunglasses", skip_validation |-> TRUE, force |-> TRUE],
      [url |-> UrlMyshopify, segment |-> "sunglasses", skip_validation |-> FALSE,
       force |-> FALSE] }

\* The cache a run starts from: empty, or holding the domain of an earlier run
InitialCaches ==
    { EmptyCache, mark_processed(EmptyCache, UrlBare, "lead-0") }

\* str(uuid.uuid4())[:8]
NewLeadId == "lead-1"

VerifyOutcomes == {"shopify", "custom", "error"}

ProductKinds == {"negative", "eyewear", "other"}

ProductLists == UNION { [1..k -> ProductKinds] : k \in 0..MaxProducts }

ErrorText == <<"b", "o", "o", "m">>

ProductResponses ==
    { [status |-> "not_200", products |-> <<>>, error |-> <<>>],
      [status |-> "raises", products |-> <<>>, error |-> ErrorText] }
    \cup { [status |-> "ok", products |-> ps, error |-> <<>>] : ps \in ProductLists }
    \cup { [status |-> "raises_in_loop", products |-> ps, error |-> ErrorText] :
             ps \in ProductLists \ {<<>>} }

StoreName == <<"A", "c", "m", "e">>

StoreDescription == <<"S", "u", "n", "g", "l", "a", "s", "s", "e", "s">>

StoreLinkedIn == <<"l", "i", "n", "k", "e", "d", "i", "n", ".", "c", "o", "m", "/", "c", "o", "m", "p", "a", "n", "y", "/", "s">>

StoreRealDomain == <<"r", ".", "d", "e">>

StoreEmail == <<"s", "@", "r", ".", "d", "e">>

\* The storefront as extract_store_info finds it: whether the main page
\* is read (a 200 answer), what its markup gives, and the countries that
\* its schema.org markup and its currency configuration give.
StorePages ==
    { [read |-> FALSE, name |-> None, description |-> None, linkedin |-> None,
       real_domain |-> None, email |-> None, schema_country |-> None,
       currency_country |-> None] }
    \cup
    { [read |-> TRUE, name |-> p.name, description |-> p.description,
       linkedin |-> p.linkedin, real_domain |-> rd, email |-> e,
       schema_country |-> sc, currency_country |-> cc] :
        p \in { [name |-> None, description |-> None, linkedin |-> None],
                [name |-> StoreName, description |-> StoreDescription,
                 linkedin |-> StoreLinkedIn] },
        rd \in {None, StoreRealDomain},
        e \in {None, StoreEmail},
        sc \in {None, <<"D", "E">>},
        cc \in {None, <<"C", "A">>} }

\* ShopifyVerifier.detect_country: markup, then currency, then the TLD
detect_country(url, page) ==
    IF Truthy(page.schema_country) THEN page.schema_country
    ELSE IF Truthy(page.currency_country) THEN page.currency_country
    ELSE detect_country_from_tld(url)

\* ShopifyVerifier.extract_store_info: the defaults when the page is not
\* read; otherwise what the page gives, and the detected country
extract_store_info(url, page) ==
    [ name |-> page.name, description |-> page.description,
      linkedin |-> page.linkedin, real_domain |-> page.real_domain,
      email |-> page.email,
      country |-> IF page.read THEN detect_country(StoreUrl(url), page) ELSE None ]

\* A contact of domain_search's decision_makers; confidence is <<>> for None
HunterContact(name, email, confidence) ==
    [name |-> name, email |-> email, confidence |-> confidence]

HunterDecisionMakers ==
    { <<>>,
      <<HunterContact(PersonName, EmailAddress, <<95>>)>>,
      <<HunterContact(PersonName, EmailAddress, <<80>>)>>,
      <<HunterContact(PersonName, None, <<95>>)>>,
      <<HunterContact(PersonName, EmailAddress, <<>>)>>,
      <<HunterContact(<<>>, EmailAddress, <<50>>),
        HunterContact(PersonName, EmailAddress, <<95>>)>> }

\* What domain_search returns; all fields empty when the request fails
HunterResults ==
    { [company_name |-> None, country |-> o.country, industry |-> o.industry,
       decision_makers |-> dms] :
        o \in { [country |-> None, industry |-> None],
                [country |-> <<"U", "S">>,
                 industry |-> <<"O", "p", "t", "i", "c", "a", "l">>] },
        dms \in HunterDecisionMakers }

LinkedInUrl == <<"l", "i", "n", "k", "e", "d", "i", "n", ".", "c", "o", "m", "/", "c", "o", "m", "p", "a", "n", "y", "/", "x">>

\* What find_company returns when it finds the company.  employee_count,
\* website and Headquarters are the strings of the API's answer.
LinkedInData ==
    { [linkedInUrl |-> LinkedInUrl, employee_count |-> None, industry |-> None,
       description |-> None, addressCountry |-> None,
       Headquarters |-> <<"D", "u", "b", "l", "i", "n", ",", " ", "i", "e">>,
       website |-> None] }
    \cup
    { [linkedInUrl |-> u, employee_count |-> p.employee_count,
       industry |-> p.industry, description |-> p.description,
       addressCountry |-> c.addressCountry, Headquarters |-> c.Headquarters,
       website |-> w] :
        u \in {None, LinkedInUrl},
        p \in { [employee_count |-> None, industry |-> None, description |-> None],
                [employee_count |-> <<"3", "0">>, industry |-> <<"R", "e", "t", "a", "i", "l">>,
                 description |-> <<"R", "X", " ", "L", "e", "n", "s", "e", "s">>],
                [employee_count |-> <<"1", "1", "-", "5", "0">>, industry |-> None,
                 description |-> None] },
        c \in { [addressCountry |-> None, Headquarters |-> None],
                [addressCountry |-> <<"G", "B">>, Headquarters |-> None] },
        w \in { None, <<"h", "t", "t", "p", "s", ":", "/", "/", "w", "w", "w", ".", "l", "i", ".", "c", "o", "/", "a", "b", "o", "u", "t">>, <<"l", "i", "n", "k", "t", "r", ".", "e", "e", "/", "x">> } }

Digits == {"0", "1", "2", "3", "4", "5", "6", "7", "8", "9"}

DigitValue(c) == CHOOSE n \in 0..9 : IntToStr(n) = <<c>>

\* int(s) succeeds on a string of digits
IsNumeral(s) == s # <<>> /\ \A i \in 1..Len(s) : s[i] \in Digits

RECURSIVE ParseInt(_)
ParseInt(s) ==
    IF s = <<>> THEN 0
    ELSE 10 * ParseInt(SubSeq(s, 1, Len(s) - 1)) + DigitValue(s[Len(s)])

\* s.split(sep)[-1]
RECURSIVE LastPart(_, _)
LastPart(s, sep) ==
    LET RECURSIVE AfterFirst(_)
        AfterFirst(t) ==
            IF StartsWith(t, sep) THEN SubSeq(t, Len(sep) + 1, Len(t))
            ELSE AfterFirst(Tail(t))
    IN  IF StrContains(s, sep) THEN LastPart(AfterFirst(s), sep) ELSE s

\* The country a network record carries: mainAddress.addressCountry, else
\* the two-letter last part of Headquarters
NetworkCountry(data) ==
    LET last == StrStrip(LastPart(data.Headquarters, <<",", " ">>))
    IN  IF Truthy(data.addressCountry) THEN data.addressCountry
        ELSE IF /\ Truthy(data.Headquarters)
                /\ StrContains(data.Headquarters, <<",", " ">>)
                /\ Len(last) = 2
             THEN StrUpper(last)
        ELSE None

\* LinkedInFinder.enrich_company once find_company has returned data: the
\* company as the call leaves it, and whether the call raised.  The company
\* is changed in place, so what was assigned before a raise stays.
enrich_company(company, data) ==
    LET c1 == [company EXCEPT !.linkedin_url = data.linkedInUrl]
        raises == Truthy(data.employee_count) /\ ~IsNumeral(data.employee_count)
        c2 == IF Truthy(data.employee_count)
              THEN [c1 EXCEPT !.employee_count = <<ParseInt(data.employee_count)>>]
              ELSE c1
        c3 == [c2 EXCEPT !.industry = data.industry]
        c4 == [c3 EXCEPT !.description =
                  IF Truthy(data.description) THEN data.description ELSE c3.description]
        hq == data.Headquarters
        potential_country == StrStrip(LastPart(hq, <<",", " ">>))
        country == IF Truthy(c4.country) THEN c4.country
                   ELSE IF Truthy(data.addressCountry) THEN data.addressCountry
                   ELSE IF Truthy(hq) /\ StrContains(hq, <<",", " ">>)
                           /\ Len(potential_country) = 2
                        THEN StrUpper(potential_country)
                   ELSE data.addressCountry
        c5 == [c4 EXCEPT !.country = country]
        li_domain == _extract_domain(data.website)
        c6 == IF /\ Truthy(data.website)
                 /\ Truthy(li_domain)
                 /\ \A i \in 1..Len(invalid_domains) :
                        ~StrContains(li_domain, invalid_domains[i])
              THEN [c5 EXCEPT !.primary_domain = li_domain]
              ELSE c5
        original_domain == _extract_domain(c6.website)
        c7 == IF /\ ~Truthy(c6.primary_domain)
                 /\ Truthy(c6.website)
                 /\ DomainUsable(original_domain)
              THEN [c6 EXCEPT !.primary_domain = original_domain]
              ELSE c6
    IN  IF raises THEN [company |-> c1, raised |-> TRUE]
        ELSE [company |-> c7, raised |-> FALSE]

\* EmailFinder.enrich_decision_maker(decision_maker, domain); lookup is what
\* the email-finder and email-verifier requests give.
EmailLookups ==
    { [email |-> None, status |-> "error"],
      [email |-> <<"n", "@", "b", ".", "c">>, status |-> "valid"],
      [email |-> <<"n", "@", "b", ".", "c">>, status |-> "error"] }

\* find_email sends its request only when the name yields a first name
HasFirstName(name) == Truthy(name) /\ StrStrip(name) # <<>>

\* enrich_decision_maker reaches the request of find_email
LookupMade(dm) == ~(Truthy(dm.email) /\ dm.email_verified) /\ HasFirstName(dm.name)

enrich_decision_maker_trusting(dm, lookup) ==
    IF Truthy(dm.email) /\ dm.email_verified THEN dm
    ELSE IF ~Truthy(dm.name) \/ StrStrip(dm.name) = <<>> THEN dm
    ELSE IF ~Truthy(lookup.email) THEN dm
    ELSE [dm EXCEPT !.email = lookup.email, !.email_verified = TRUE]

enrich_decision_maker(dm, lookup) ==
    IF Truthy(dm.email) /\ dm.email_verified THEN dm
    ELSE IF ~Truthy(dm.name) \/ StrStrip(dm.name) = <<>> THEN dm
    ELSE IF ~Truthy(lookup.email) THEN dm
    ELSE [dm EXCEPT !.email = lookup.email,
                    !.email_verified = (lookup.status = "valid")]

\* models.Company as process_url builds it (founded_year is not modelled)
Company(name, website, shopify_url, primary_domain, platform, segment, description, country) ==
    [ name |-> name, website |-> website, shopify_url |-> shopify_url,
      primary_domain |-> primary_domain, platform |-> platform,
      industry |-> None, segment |-> segment, country |-> country,
      employee_count |-> <<>>, linkedin_url |-> None,
      description |-> description ]

\* models.Lead(lead_id=..., company=...)
Lead(lead_id, company) ==
    [ lead_id |-> lead_id, company |-> company, decision_maker |-> <<>>,
      qualification |-> DefaultQualification, outreach |-> <<>> ]

Init ==
    /\ NormIdle
    /\ ScoreIdle
    /\ CacheIdle
    /\ BatchIdle
    /\ StageIdle
    /\ observed = NoObserved
    /\ pc = "idle"
    /\ args = NoArgs
    /\ cache \in InitialCaches
    /\ disk = [readable |-> TRUE, content |-> cache]
    /\ verification = <<>>
    /\ validation = <<>>
    /\ store_info = <<>>
    /\ hunter_data = <<>>
    /\ domain = None
    /\ lead = <<>>
    /\ calls = {}
    /\ marks = 0
    /\ result = "none"
    /\ cache0 = cache

\* lines 39-60: the call and CHECK_CACHE
ProcessUrl ==
    /\ pc = "idle"
    /\ \E call \in ProcessCalls :
        /\ args' = call
        /\ IF ~call.force /\ is_processed(cache, call.url)
           THEN pc' = "returned" /\ result' = "skipped"
           ELSE pc' = "verify" /\ result' = "running"
    /\ UNCHANGED <<cache, disk, verification, validation, store_info,
                   hunter_data, domain, lead, calls, marks, cache0>>
    /\ UNCHANGED <<normVars, scoreVars, cacheVars, batchVars, stageVars>>
    /\ UNCHANGED observed

VerifyPlatform_marksEarly ==
    /\ pc = "verify"
    /\ \E outcome \in VerifyOutcomes :
        LET v == verify(args.url, outcome)
        IN  /\ verification' = <<v>>
            /\ IF ~IsTargetPlatform(v.platform)
               THEN pc' = "returned" /\ result' = "rejected_platform"
                    /\ UNCHANGED <<cache, marks>>
               ELSE pc' = "validate" /\ UNCHANGED result
                    /\ cache' = mark_processed(cache, args.url, NewLeadId)
                    /\ marks' = marks + 1
    /\ calls' = calls \cup {"verifier.verify"}
    /\ UNCHANGED <<args, disk, validation, store_info, hunter_data,
                   domain, lead, cache0>>
    /\ UNCHANGED <<normVars, scoreVars, cacheVars, batchVars, stageVars>>
    /\ UNCHANGED observed

\* lines 62-69: VERIFY_PLATFORM
VerifyPlatform ==
    /\ pc = "verify"
    /\ \E outcome \in VerifyOutcomes :
        LET v == verify(args.url, outcome)
        IN  /\ verification' = <<v>>
            /\ IF ~IsTargetPlatform(v.platform)
               THEN pc' = "returned" /\ result' = "rejected_platform"
               ELSE pc' = "validate" /\ UNCHANGED result
    /\ calls' = calls \cup {"verifier.verify"}
    /\ UNCHANGED <<args, cache, disk, validation, store_info, hunter_data,
                   domain, lead, marks, cache0>>
    /\ UNCHANGED <<normVars, scoreVars, cacheVars, batchVars, stageVars>>
    /\ UNCHANGED observed

\* lines 71-78: VALIDATE_CATEGORY.  validation is read only by the
\* rejection branch, so a passing result is not kept; a rejecting one is
\* kept together with the catalog answer it was computed from.
ValidateCategory ==
    /\ pc = "validate"
    /\ IF NeedsValidation(args.segment, args.skip_validation)
       THEN /\ \E response \in ProductResponses :
                LET v == validate_eyewear_store(response)
                IN  IF ~v.is_eyewear_store
                    THEN /\ validation' = <<v, response>>
                         /\ pc' = "returned"
                         /\ result' = "rejected_category"
                    ELSE /\ validation' = <<>>
                         /\ pc' = "extract"
                         /\ UNCHANGED result
            /\ calls' = calls \cup {"product_validator.validate_eyewear_store"}
       ELSE /\ pc' = "extract"
            /\ UNCHANGED <<validation, result, calls>>
    /\ UNCHANGED <<args, cache, disk, verification, store_info, hunter_data,
                   domain, lead, marks, cache0>>
    /\ UNCHANGED <<normVars, scoreVars, cacheVars, batchVars, stageVars>>
    /\ UNCHANGED observed

\* lines 80-113: EXTRACT_STORE_INFO and the initial lead.  Of store_info
\* only the e-mail is read after line 111.
ExtractStoreInfo ==
    /\ pc = "extract"
    /\ \E page \in StorePages :
        LET info == extract_store_info(verification[1].store_url, page)
            original_domain == _extract_domain(args.url)
            primary_domain ==
                IF Truthy(info.real_domain) THEN info.real_domain
                ELSE IF ~StrContains(original_domain, MyshopifyCom)
                     THEN original_domain ELSE None
            company_name ==
                IF Truthy(info.name) THEN info.name
                ELSE _extract_company_name(args.url)
            company ==
                Company(company_name, args.url,
                        IF verification[1].is_shopify
                        THEN verification[1].store_url ELSE None,
                        primary_domain, verification[1].platform, args.segment,
                        info.description, info.country)
        IN  /\ store_info' = <<[email |-> info.email]>>
            /\ lead' = <<Lead(NewLeadId,
                              IF Truthy(info.linkedin)
                              THEN [company EXCEPT !.linkedin_url = info.linkedin]
                              ELSE company)>>
            /\ observed' = [observed EXCEPT !.schema = page.schema_country,
                                             !.currency = page.currency_country]
    /\ calls' = calls \cup {"verifier.extract_store_info"}
    /\ pc' = "domain_search"
    /\ UNCHANGED <<args, cache, disk, verification, validation, hunter_data,
                   domain, marks, result, cache0>>
    /\ UNCHANGED <<normVars, scoreVars, cacheVars, batchVars, stageVars>>

\* lines 115-134: the domain search and what it fills in.  Of hunter_data
\* only decision_makers is read afterwards.
DomainSearch ==
    /\ pc = "domain_search"
    /\ LET company == lead[1].company
           d == IF Truthy(company.primary_domain) THEN company.primary_domain
                ELSE _extract_domain(args.url)
       IN  /\ domain' = d
           /\ observed' = [observed EXCEPT !.searched =
                               IF DomainUsable(d) THEN <<d>> ELSE <<>>]
           /\ IF DomainUsable(d)
              THEN /\ \E h \in HunterResults :
                       LET c1 == IF Truthy(h.company_name) /\ ~Truthy(company.name)
                                 THEN [company EXCEPT !.name = h.company_name]
                                 ELSE company
                           c2 == IF Truthy(h.country) /\ ~Truthy(c1.country)
                                 THEN [c1 EXCEPT !.country = h.country] ELSE c1
                           c3 == IF Truthy(h.industry) /\ ~Truthy(c2.industry)
                                 THEN [c2 EXCEPT !.industry = h.industry] ELSE c2
                       IN  /\ hunter_data' = <<[decision_makers |-> h.decision_makers]>>
                           /\ lead' = <<[lead[1] EXCEPT !.company = c3]>>
                   /\ calls' = calls \cup {"email_finder.domain_search"}
              ELSE UNCHANGED <<hunter_data, lead, calls>>
    /\ pc' = "network_enrich"
    /\ UNCHANGED <<args, cache, disk, verification, validation, store_info,
                   marks, result, cache0>>
    /\ UNCHANGED <<normVars, scoreVars, cacheVars, batchVars, stageVars>>

\* lines 136-142: the company enrichment; a raise is caught and logged
NetworkEnrich ==
    /\ pc = "network_enrich"
    /\ \/ UNCHANGED <<lead, observed>>
       \/ \E data \in LinkedInData :
            /\ lead' = <<[lead[1] EXCEPT
                            !.company = enrich_company(lead[1].company, data).company]>>
            /\ observed' = [observed EXCEPT !.network = NetworkCountry(data)]
    /\ calls' = calls \cup {"linkedin.enrich_company"}
    /\ pc' = "country"
    /\ UNCHANGED <<args, cache, disk, verification, validation, store_info,
                   hunter_data, domain, marks, result, cache0>>
    /\ UNCHANGED <<normVars, scoreVars, cacheVars, batchVars, stageVars>>

AggregateCountry_always ==
    /\ pc = "country"
    /\ lead' = <<[lead[1] EXCEPT !.company.country =
                     IF Truthy(detect_country_from_tld(args.url))
                     THEN detect_country_from_tld(args.url) ELSE @]>>
    /\ calls' = calls \cup {"verifier.detect_country_from_tld"}
    /\ pc' = "decision_makers"
    /\ UNCHANGED <<args, cache, disk, verification, validation, store_info,
                   hunter_data, domain, marks, result, cache0>>
    /\ UNCHANGED <<normVars, scoreVars, cacheVars, batchVars, stageVars>>
    /\ UNCHANGED observed

\* lines 144-153: the TLD as the last source of the country
AggregateCountry ==
    /\ pc = "country"
    /\ IF ~Truthy(lead[1].company.country)
       THEN /\ lead' = <<[lead[1] EXCEPT !.company.country =
                            IF Truthy(detect_country_from_tld(args.url))
                            THEN detect_country_from_tld(args.url) ELSE @]>>
            /\ calls' = calls \cup {"verifier.detect_country_from_tld"}
       ELSE UNCHANGED <<lead, calls>>
    /\ pc' = "decision_makers"
    /\ UNCHANGED <<args, cache, disk, verification, validation, store_info,
                   hunter_data, domain, marks, result, cache0>>
    /\ UNCHANGED <<normVars, scoreVars, cacheVars, batchVars, stageVars>>
    /\ UNCHANGED observed

NetworkPersonName == <<"L", "e", "e">>

WebsitePersonName == <<"K", "i", "m">>

StoreContactName == <<"S", "t", "o", "r", "e", " ", "C", "o", "n", "t", "a", "c", "t">>

\* lines 155-176: decision-maker strategies 1 (employee search, guarded by
\* try) and 2 (the first contact of the domain search, not guarded).
\* hunter_data is not read after line 176.
FindDecisionMakers ==
    /\ pc = "decision_makers"
    /\ \E found \in IF Truthy(lead[1].company.linkedin_url)
                    THEN {"none", "found", "raises"} ELSE {"none"} :
        LET dm1 == IF found = "found"
                   THEN <<DecisionMaker(NetworkPersonName, None, FALSE)>> ELSE <<>>
            use_hunter == /\ dm1 = <<>>
                          /\ hunter_data # <<>>
                          /\ hunter_data[1].decision_makers # <<>>
            dm_data == hunter_data[1].decision_makers[1]
        IN  IF use_hunter /\ dm_data.confidence = <<>>
            THEN \* None > 80 raises TypeError
                 /\ pc' = "returned"
                 /\ result' = "raised"
                 /\ UNCHANGED <<lead, hunter_data>>
            ELSE /\ lead' = <<[lead[1] EXCEPT !.decision_maker =
                                 IF use_hunter
                                 THEN <<DecisionMaker(dm_data.name, dm_data.email,
                                                      dm_data.confidence[1] > 80)>>
                                 ELSE dm1]>>
                 /\ hunter_data' = <<>>
                 /\ pc' = "alternative_sources"
                 /\ UNCHANGED result
    /\ calls' = calls \cup {"linkedin.find_decision_makers"}
    /\ UNCHANGED <<args, cache, disk, verification, validation, store_info,
                   domain, marks, cache0>>
    /\ UNCHANGED <<normVars, scoreVars, cacheVars, batchVars, stageVars>>
    /\ UNCHANGED observed

\* lines 178-197: strategies 3 (About/Team pages, guarded by try) and 4
\* (the store's contact e-mail).  store_info is only logged afterwards.
AlternativeSources ==
    /\ pc = "alternative_sources"
    /\ IF lead[1].decision_maker = <<>>
       THEN /\ \E found \in {"none", "found", "raises"} :
                LET dm3 == IF found = "found"
                           THEN <<DecisionMaker(WebsitePersonName, None, FALSE)>>
                           ELSE <<>>
                    dm4 == IF dm3 = <<>> /\ Truthy(store_info[1].email)
                           THEN <<DecisionMaker(StoreContactName,
                                                store_info[1].email, FALSE)>>
                           ELSE dm3
                IN  lead' = <<[lead[1] EXCEPT !.decision_maker = dm4]>>
            /\ calls' = calls \cup
                   {"alt_source_finder.find_decision_makers_from_website"}
       ELSE UNCHANGED <<lead, calls>>
    /\ store_info' = <<>>
    /\ pc' = "find_email"
    /\ UNCHANGED <<args, cache, disk, verification, validation, hunter_data,
                   domain, marks, result, cache0>>
    /\ UNCHANGED <<normVars, scoreVars, cacheVars, batchVars, stageVars>>
    /\ UNCHANGED observed

\* the domain the company carries now, else the one computed before the
\* domain search
CurrentDomain ==
    IF Truthy(lead[1].company.primary_domain) THEN lead[1].company.primary_domain
    ELSE domain

\* a lookup that asks for the company's current primary domain
FindEmail_currentDomain ==
    /\ pc = "find_email"
    /\ IF /\ lead[1].decision_maker # <<>>
          /\ ~(Truthy(lead[1].decision_maker[1].email)
               /\ lead[1].decision_maker[1].email_verified)
          /\ DomainUsable(CurrentDomain)
       THEN /\ \E lookup \in EmailLookups :
                /\ lead' = <<[lead[1] EXCEPT !.decision_maker =
                                <<enrich_decision_maker(lead[1].decision_maker[1],
                                                        lookup)>>]>>
                /\ observed' = [observed EXCEPT !.lookup =
                                    IF LookupMade(lead[1].decision_maker[1])
                                    THEN <<lookup>> ELSE <<>>,
                                                 !.looked_up = <<CurrentDomain>>]
            /\ calls' = calls \cup {"email_finder.enrich_decision_maker"}
       ELSE UNCHANGED <<lead, calls, observed>>
    /\ pc' = "score"
    /\ UNCHANGED <<args, cache, disk, verification, validation, store_info,
                   hunter_data, domain, marks, result, cache0>>
    /\ UNCHANGED <<normVars, scoreVars, cacheVars, batchVars, stageVars>>

\* lines 199-215: the e-mail lookup for the decision maker
FindEmail ==
    /\ pc = "find_email"
    /\ IF /\ lead[1].decision_maker # <<>>
          /\ ~(Truthy(lead[1].decision_maker[1].email)
               /\ lead[1].decision_maker[1].email_verified)
          /\ DomainUsable(domain)
       THEN /\ \E lookup \in EmailLookups :
                /\ lead' = <<[lead[1] EXCEPT !.decision_maker =
                                <<enrich_decision_maker(lead[1].decision_maker[1],
                                                        lookup)>>]>>
                /\ observed' = [observed EXCEPT !.lookup =
                                    IF LookupMade(lead[1].decision_maker[1])
                                    THEN <<lookup>> ELSE <<>>,
                                                 !.looked_up = <<domain>>]
            /\ calls' = calls \cup {"email_finder.enrich_decision_maker"}
       ELSE UNCHANGED <<lead, calls, observed>>
    /\ pc' = "score"
    /\ UNCHANGED <<args, cache, disk, verification, validation, store_info,
                   hunter_data, domain, marks, result, cache0>>
    /\ UNCHANGED <<normVars, scoreVars, cacheVars, batchVars, stageVars>>

\* lines 217-219: SCORE
Score ==
    /\ pc = "score"
    /\ lead' = <<[lead[1] EXCEPT !.qualification = score(sscorer, lead[1])]>>
    /\ calls' = calls \cup {"scorer.score"}
    /\ pc' = "outreach"
    /\ UNCHANGED <<args, cache, disk, verification, validation, store_info,
                   hunter_data, domain, marks, result, cache0>>
    /\ UNCHANGED <<normVars, scoreVars, cacheVars, batchVars, stageVars>>
    /\ UNCHANGED observed

\* lines 221-228: GENERATE_OUTREACH; a raise is caught and logged
GenerateOutreach ==
    /\ pc = "outreach"
    /\ IF lead[1].company.platform = "shopify"
       THEN /\ \/ lead' = <<[lead[1] EXCEPT !.outreach = <<"copy">>]>>
               \/ UNCHANGED lead
            /\ calls' = calls \cup {"copywriter.generate_outreach"}
       ELSE UNCHANGED <<lead, calls>>
    /\ pc' = "commit"
    /\ UNCHANGED <<args, cache, disk, verification, validation, store_info,
                   hunter_data, domain, marks, result, cache0>>
    /\ UNCHANGED <<normVars, scoreVars, cacheVars, batchVars, stageVars>>
    /\ UNCHANGED observed

\* a commit that leaves an entry the cache already has
CommitCache_keepsFirst ==
    /\ pc = "commit"
    /\ cache' = IF is_processed(cache, args.url) THEN cache
                ELSE mark_processed(cache, args.url, lead[1].lead_id)
    /\ marks' = marks + 1
    /\ calls' = calls \cup {"dedup_cache.mark_processed"}
    /\ \E save \in {"saved", "open_fails", "write_fails", "mkdir_raises"} :
        /\ disk' = IF save = "saved" THEN [readable |-> TRUE, content |-> cache']
                   ELSE IF save = "write_fails"
                        THEN [readable |-> FALSE, content |-> EmptyCache]
                   ELSE disk
        /\ result' = IF save = "mkdir_raises" THEN "raised_in_commit" ELSE "lead"
    /\ pc' = "returned"
    /\ UNCHANGED <<args, verification, validation, store_info, hunter_data,
                   domain, lead, cache0>>
    /\ UNCHANGED <<normVars, scoreVars, cacheVars, batchVars, stageVars>>
    /\ UNCHANGED observed

\* lines 230-237: COMMIT_CACHE and the return.  mark_processed changes the
\* cache in memory and then saves it: the save writes the file ("saved"),
\* fails to open it (IOError, logged: "open_fails"), fails while writing
\* (IOError, logged, the file is left cut short: "write_fails"), or fails
\* to create the directory, which is outside the try ("mkdir_raises").
CommitCache ==
    /\ pc = "commit"
    /\ cache' = mark_processed(cache, args.url, lead[1].lead_id)
    /\ marks' = marks + 1
    /\ calls' = calls \cup {"dedup_cache.mark_processed"}
    /\ \E save \in {"saved", "open_fails", "write_fails", "mkdir_raises"} :
        /\ disk' = IF save = "saved" THEN [readable |-> TRUE, content |-> cache']
                   ELSE IF save = "write_fails"
                        THEN [readable |-> FALSE, content |-> EmptyCache]
                   ELSE disk
        /\ result' = IF save = "mkdir_raises" THEN "raised_in_commit" ELSE "lead"
    /\ pc' = "returned"
    /\ UNCHANGED <<args, verification, validation, store_info, hunter_data,
                   domain, lead, cache0>>
    /\ UNCHANGED <<normVars, scoreVars, cacheVars, batchVars, stageVars>>
    /\ UNCHANGED observed

Next ==
    \/ ProcessUrl
    \/ VerifyPlatform
    \/ ValidateCategory
    \/ ExtractStoreInfo
    \/ DomainSearch
    \/ NetworkEnrich
    \/ AggregateCountry
    \/ FindDecisionMakers
    \/ AlternativeSources
    \/ FindEmail
    \/ Score
    \/ GenerateOutreach
    \/ CommitCache

Spec == Init /\ [][Next]_vars

\* The claims' reading of "on the exclusion list": some piece of the name
\* equals an entry of the configured list when case is ignored.
NameContainsExcluded(name, entries) ==
    LET shout == StrUpper(name)
    IN  \E i \in 1..Len(entries) :
            LET e == StrUpper(entries[i])
            IN  \E a \in 1..(Len(name) + 1) :
                    /\ a + Len(e) - 1 <= Len(name)
                    /\ SubSeq(shout, a, a + Len(e) - 1) = e

\* sum(breakdown.values())
RECURSIVE SumValues(_, _)
SumValues(breakdown, keys) ==
    IF keys = {} THEN 0
    ELSE LET k == CHOOSE x \in keys : TRUE
         IN  breakdown[k].n + SumValues(breakdown, keys \ {k})

SumAllWeights == SumValues([k \in DOMAIN SCORING_WEIGHTS |-> IntValue(SCORING_WEIGHTS[k])],
                           DOMAIN SCORING_WEIGHTS)

Scored == spc = "scored"

Excluded == NameContainsExcluded(slead.company.name, sscorer.exclusion_list)

\* What the claims about process_url read from a state
Returned == pc = "returned"

PastGate == "verifier.extract_store_info" \in calls

BelowMinimum(v) ==
    100 * v.eyewear_ratio.num < MIN_EYEWEAR_RATIO * v.eyewear_ratio.den

(***************************************************************************)
(* C1: when process_url is called with force = False and the normalized    *)
(* url is already a key of the cache, the call returns no lead, calls      *)
(* neither the verifier nor any later collaborator, and leaves the cache   *)
(* (in memory and on disk) as it was.                                      *)
(***************************************************************************)
C1_CacheSkip ==
    (pc # "idle" /\ ~args.force /\ normalize_url(args.url) \in DOMAIN cache0)
        => /\ Returned
           /\ result = "skipped"
           /\ lead = <<>>
           /\ calls = {}
           /\ marks = 0
           /\ cache = cache0
           /\ disk = [readable |-> TRUE, content |-> cache0]

\* a skip of a url that is written differently from the cached key
C1_Witness ==
    /\ Returned
    /\ result = "skipped"
    /\ ~args.force
    /\ args.url \notin DOMAIN cache0
    /\ normalize_url(args.url) \in DOMAIN cache0

(***************************************************************************)
(* C2: when the verifier classifies the platform as anything but the       *)
(* target platform ("custom", or "unknown" after a verifier error), the    *)
(* call returns no lead right after VERIFY_PLATFORM: the verifier is the   *)
(* only collaborator called and the cache is as it was.                    *)
(***************************************************************************)
C2_NonTargetPlatform ==
    (verification # <<>> /\ verification[1].platform # "shopify")
        => /\ Returned
           /\ result = "rejected_platform"
           /\ lead = <<>>
           /\ calls = {"verifier.verify"}
           /\ marks = 0
           /\ cache = cache0

\* a verifier error on a domain that is not cached
C2_Witness ==
    /\ Returned
    /\ result = "rejected_platform"
    /\ verification[1].platform = "unknown"
    /\ ~is_processed(cache, args.url)

(***************************************************************************)
(* C3 as stated: whenever the validator's ratio is below the minimum for a *)
(* candidate that needs category confirmation, no lead is returned, the    *)
(* cache is as it was, and the rejection reason contains the observed      *)
(* ratio and the required minimum.                                         *)
(***************************************************************************)
C3_ReasonCarriesRatios ==
    (validation # <<>> /\ BelowMinimum(validation[1]))
        => /\ Returned
           /\ result = "rejected_category"
           /\ lead = <<>>
           /\ cache = cache0
           /\ StrContains(validation[1].rejection_reason,
                          FormatPercent(validation[1].eyewear_ratio.num,
                                        validation[1].eyewear_ratio.den))
           /\ StrContains(validation[1].rejection_reason, <<"3", "0", "%">>)

(***************************************************************************)
(* C3: whenever the validator rejects a candidate that needs category      *)
(* confirmation, its ratio is below the minimum, no lead is returned, no   *)
(* later stage runs and the cache is as it was; and when the catalog was   *)
(* read, held at least one product and was analysed without an error, the  *)
(* rejection reason is "Only <observed>% eyewear products (minimum 30%     *)
(* required)" with the observed ratio as a whole percentage.               *)
(***************************************************************************)
C3_RejectionReason ==
    validation # <<>>
        => LET v == validation[1]
               response == validation[2]
           IN  /\ NeedsValidation(args.segment, args.skip_validation)
               /\ ~v.is_eyewear_store
               /\ BelowMinimum(v)
               /\ Returned
               /\ result = "rejected_category"
               /\ lead = <<>>
               /\ calls = {"verifier.verify",
                           "product_validator.validate_eyewear_store"}
               /\ marks = 0
               /\ cache = cache0
               /\ (response.status = "ok" /\ response.products # <<>>)
                    => /\ v.total_products = Len(response.products)
                       /\ StartsWith(v.rejection_reason,
                                     MsgOnly
                                     \o FormatPercent(v.eyewear_products,
                                                      v.total_products)
                                     \o <<" ">>)
                       /\ StrContains(v.rejection_reason,
                                      <<"m", "i", "n", "i", "m", "u", "m", " ",
                                        "3", "0", "%">>)

\* one eyewear product among four: 25% observed, 30% required
C3_Witness ==
    /\ Returned
    /\ result = "rejected_category"
    /\ validation # <<>>
    /\ validation[2].status = "ok"
    /\ validation[1].eyewear_products = 1
    /\ validation[1].total_products = MaxProducts
    /\ StrContains(validation[1].rejection_reason, <<"2", "5", "%">>)

(***************************************************************************)
(* C4: mark_processed is called at most once in a call of process_url, and *)
(* only after scorer.score has returned; as long as it has not been        *)
(* called - in particular when the call stopped early, by a rejection or   *)
(* an exception - the cache is as it was when the call began, so a domain  *)
(* that was not cached is still not cached.                                *)
(***************************************************************************)
C4_CommitOrdering ==
    /\ marks <= 1
    /\ marks = 1 => /\ "scorer.score" \in calls
                    /\ lead # <<>>
                    /\ lead[1].qualification = score(sscorer, lead[1])
    /\ marks = 0 => /\ cache = cache0
                    /\ "dedup_cache.mark_processed" \notin calls
    /\ (Returned /\ result \in {"rejected_platform", "rejected_category", "raised"})
         => /\ marks = 0
            /\ (~is_processed(cache0, args.url) => ~is_processed(cache, args.url))

\* the commit of a domain that was not cached
C4_Witness ==
    /\ Returned
    /\ marks = 1
    /\ "scorer.score" \in calls
    /\ ~is_processed(cache0, args.url)
    /\ get_lead_id(cache, args.url) = lead[1].lead_id

\* an exception in the middle of the pipeline, on a domain that was not cached
C4_CrashReached ==
    /\ Returned
    /\ result = "raised"
    /\ PastGate
    /\ ~is_processed(cache, args.url)

(***************************************************************************)
(* C5 as stated: once past the gate, whatever the later collaborators      *)
(* return or raise, no exception escapes process_url, SCORE is reached and *)
(* a scored lead is returned.  (A failure to store the cache is not among  *)
(* the collaborators the claim lists and is left out.)                     *)
(***************************************************************************)
C5_AlwaysScoredLead ==
    (Returned /\ PastGate /\ result # "raised_in_commit")
        => /\ result = "lead"
           /\ "scorer.score" \in calls
           /\ lead # <<>>
           /\ lead[1].qualification = score(sscorer, lead[1])

\* the run the claim does not cover: the first contact of the domain search
\* has no confidence, no employee was found, and the call raised before SCORE
C5_RaisedBeforeScore ==
    /\ Returned
    /\ PastGate
    /\ result = "raised"
    /\ "email_finder.domain_search" \in calls
    /\ "scorer.score" \notin calls
    /\ lead[1].decision_maker = <<>>

(***************************************************************************)
(* C6: a lead whose company name contains, case-insensitively, an entry of *)
(* the scorer's exclusion list gets score 0 and qualified = false,         *)
(* whatever its other fields are.                                          *)
(***************************************************************************)
C6_ExclusionShortCircuit ==
    (Scored /\ Excluded)
        => (slead.qualification.score = 0 /\ ~slead.qualification.qualified)

C6_Witness ==
    /\ Scored
    /\ slead.company.name = <<"Z", "e", "n", "n", "i", "F", "I", "E", "L">>
    /\ slead.company.platform = "shopify"
    /\ slead.company.employee_count = <<20>>
    /\ slead.company.country = <<"u", "s">>
    /\ slead.decision_maker = <<DecisionMaker(PersonName, EmailAddress, TRUE)>>
    /\ sscorer.threshold = 0
    /\ slead.qualification.score = 0
    /\ ~slead.qualification.qualified

(***************************************************************************)
(* C7: after score(), qualified is true exactly when the score is at least *)
(* the scorer's threshold and the company is not on the exclusion list.    *)
(***************************************************************************)
C7_QualificationRule ==
    Scored =>
        (slead.qualification.qualified
            <=> (slead.qualification.score >= sscorer.threshold /\ ~Excluded))

C7_Witness ==
    /\ Scored
    /\ ~Excluded
    /\ sscorer.threshold = QUALIFICATION_THRESHOLD
    /\ slead.qualification.score = sscorer.threshold
    /\ slead.qualification.qualified

\* the lead one point below the threshold
C7_BelowThresholdReached ==
    /\ Scored
    /\ ~Excluded
    /\ slead.qualification.score = sscorer.threshold - 1
    /\ ~slead.qualification.qualified

(***************************************************************************)
(* C8 as stated: for every lead, excluded or not, after score() the score  *)
(* is a non-negative integer, equals the sum of the values recorded in     *)
(* scoring_breakdown and is at most the sum of all configured weights.     *)
(***************************************************************************)
C8_ScoreIsBreakdownSum ==
    Scored =>
        LET q == slead.qualification
        IN  /\ q.score \in Nat
            /\ q.score = SumValues(q.scoring_breakdown, DOMAIN q.scoring_breakdown)
            /\ q.score <= SumAllWeights

(***************************************************************************)
(* C8 amended: after score() the score is a non-negative integer at most   *)
(* the sum of all configured weights; for a lead that is not excluded,     *)
(* scoring_breakdown maps criterion names to their configured weights and  *)
(* the score is the sum of its values; for an excluded lead the score is 0 *)
(* and scoring_breakdown holds only the marker "excluded": True, which is  *)
(* not a weight.                                                           *)
(***************************************************************************)
C8_ScoreInvariant ==
    Scored =>
        LET q == slead.qualification
            b == q.scoring_breakdown
        IN  /\ q.score \in Nat
            /\ q.score <= SumAllWeights
            /\ ~Excluded =>
                  /\ DOMAIN b \subseteq DOMAIN SCORING_WEIGHTS
                  /\ \A k \in DOMAIN b : b[k] = IntValue(SCORING_WEIGHTS[k])
                  /\ q.score = SumValues(b, DOMAIN b)
            /\ Excluded =>
                  /\ q.score = 0
                  /\ DOMAIN b = {"excluded"}
                  /\ b["excluded"] = BoolValue(TRUE)

C8_Witness ==
    /\ Scored
    /\ ~Excluded
    /\ slead.company.employee_count = <<20>>
    /\ DOMAIN slead.qualification.scoring_breakdown =
          DOMAIN SCORING_WEIGHTS \ {"company_size_good"}
    /\ slead.qualification.score = SumAllWeights - SCORING_WEIGHTS.company_size_good

(***************************************************************************)
(* C9: normalize_url is idempotent: for every input string x,              *)
(* normalize_url(normalize_url(x)) = normalize_url(x).                     *)
(***************************************************************************)
C9_Idempotent == Len(nres) = 2 => nres[2] = nres[1]

(***************************************************************************)
(* C10: every variant of a host name d built by upper-casing letters,      *)
(* prefixing a scheme, prefixing "www.", appending a path, query or        *)
(* fragment and padding with whitespace normalises to normalize_url(d).    *)
(***************************************************************************)
C10_VariantInsensitive ==
    (nkind = "variant" /\ Len(nres) >= 1 /\ Len(nbaseRes) = 1)
        => nres[1] = nbaseRes[1]

C10_Witness ==
    /\ nkind = "variant"
    /\ Len(nres) >= 1
    /\ Len(nbaseRes) = 1
    /\ nurl = StrUpper(HttpsScheme) \o StrUpper(WwwPrefix) \o <<"X", ".", "w">>
                \o <<"/", "a", "?", "b", "=", "1", "#", "w", "w", "w", ".">>
    /\ nres[1] = <<"x", ".", "w">>

\* A lower-case host name: no scheme, no path, query or fragment, no
\* whitespace, and not beginning with "www."
IsPlainHost(u) ==
    /\ u # <<>>
    /\ \A i \in 1..Len(u) : u[i] \notin Whitespace \cup {"/", "?", "#", ":"}
    /\ StrLower(u) = u
    /\ u[1] # "." /\ u[Len(u)] # "."
    /\ \A i \in 1..(Len(u) - 1) : ~(u[i] = "." /\ u[i + 1] = ".")
    /\ ~StartsWith(u, WwwPrefix)

(***************************************************************************)
(* C11 as stated: normalize_url strips only a leading "www." label, so a   *)
(* lower-case host name that does not begin with "www." is returned        *)
(* unchanged.                                                              *)
(***************************************************************************)
C11_PlainHostUnchanged ==
    (Len(nres) >= 1 /\ IsPlainHost(nurl)) => nres[1] = nurl

\* a host with "www." inside: "xwww.x" becomes "xx"
C11_InnerWwwRemoved ==
    /\ Len(nres) >= 1
    /\ nurl = <<"x", "w", "w", "w", ".", "x">>
    /\ nres[1] = <<"x", "x">>

(***************************************************************************)
(* DeduplicationCache and its backing file.                                *)
(***************************************************************************)
MaxCacheOps == 4

\* The file as json.load sees it.  kind is "absent"; "unreadable" (open
\* raises OSError); "undecodable" (the bytes are not text in the default
\* encoding); "malformed" (not JSON, e.g. empty or cut short); "object" (a
\* JSON object of entries, as _save_cache writes it); "array" (the JSON
\* text []); "number" (a JSON number).
JsonString(text) == [json |-> "string", text |-> text]

\* json.dump(self._cache, f): every entry becomes a JSON object whose
\* lead_id is a JSON string (processed_at is not modelled)
json_dump(items) ==
    [ kind |-> "object",
      members |-> [d \in DOMAIN items |-> [lead_id |-> JsonString(items[d].lead_id)]] ]

\* json.load(f) of an "object" file
json_load(file) ==
    [d \in DOMAIN file.members |-> [lead_id |-> file.members[d].lead_id.text]]

\* _load_cache: the value of self._cache, or the exception that leaves it
_load_cache(file) ==
    IF file.kind \in {"absent", "unreadable", "malformed"}
    THEN [raised |-> "none", type |-> "dict", items |-> EmptyCache]
    ELSE IF file.kind = "undecodable"
    THEN [raised |-> "UnicodeDecodeError", type |-> "dict", items |-> EmptyCache]
    ELSE IF file.kind = "object"
    THEN [raised |-> "none", type |-> "dict", items |-> json_load(file)]
    ELSE IF file.kind = "array"
    THEN [raised |-> "none", type |-> "list", items |-> EmptyCache]
    ELSE \* len() of a number in the debug message
         [raised |-> "TypeError", type |-> "dict", items |-> EmptyCache]

SaveOutcomes == {"saved", "mkdir_raises", "open_fails", "write_fails"}

\* a save that merges the entries into the file instead of rewriting it
_save_cache_merging(items, file, outcome) ==
    IF outcome = "saved"
    THEN [ file |-> IF file.kind = "object"
                    THEN json_dump([d \in DOMAIN items \cup DOMAIN file.members |->
                                      IF d \in DOMAIN items THEN items[d]
                                      ELSE json_load(file)[d]])
                    ELSE json_dump(items),
           raised |-> "none" ]
    ELSE IF outcome = "mkdir_raises" THEN [file |-> file, raised |-> "OSError"]
    ELSE IF outcome = "open_fails" THEN [file |-> file, raised |-> "none"]
    ELSE [file |-> [kind |-> "malformed", members |-> EmptyCache], raised |-> "none"]

\* _save_cache: the file afterwards and the exception that leaves the call.
\* mkdir is outside the try; the IOError of open or of the write is caught.
_save_cache(items, file, outcome) ==
    IF outcome = "saved" THEN [file |-> json_dump(items), raised |-> "none"]
    ELSE IF outcome = "mkdir_raises" THEN [file |-> file, raised |-> "OSError"]
    ELSE IF outcome = "open_fails" THEN [file |-> file, raised |-> "none"]
    ELSE [file |-> [kind |-> "malformed", members |-> EmptyCache], raised |-> "none"]

CacheFiles ==
    { [kind |-> k, members |-> EmptyCache] :
        k \in {"absent", "unreadable", "undecodable", "malformed", "array", "number"} }
    \cup { json_dump(c) : c \in InitialCaches }

CacheUrls == {UrlBare, UrlFull, UrlMyshopify}

CacheLeadIds == {"lead-1", "lead-2"}

\* every other instance was built before this change of the file
Stale(insts, i) == [j \in DOMAIN insts |-> IF j = i THEN insts[j] ELSE [insts[j] EXCEPT !.fresh = FALSE]]

CacheInit ==
    /\ NormIdle
    /\ ScoreIdle
    /\ PipeIdle
    /\ BatchIdle
    /\ StageIdle
    /\ chist = NoHistory
    /\ cfile \in CacheFiles
    /\ cinst = [i \in 1..MaxInstances |-> NoInstance]
    /\ clast = NoCall
    /\ cops = 0

\* DeduplicationCache(cache_file)
Construct(i) ==
    /\ cops < MaxCacheOps
    /\ cinst[i].status = "none"
    /\ LET loaded == _load_cache(cfile)
       IN  cinst' = [cinst EXCEPT ![i] =
                        [ status |-> IF loaded.raised = "none" THEN "ready" ELSE "failed",
                          type |-> loaded.type, items |-> loaded.items, fresh |-> TRUE ]]
    /\ cops' = cops + 1
    /\ UNCHANGED <<cfile, clast, chist>>
    /\ UNCHANGED <<normVars, scoreVars, pipeVars, batchVars, stageVars>>

\* mark_processed(url, lead_id): the item assignment fails on a list
MarkProcessed(i) ==
    /\ cops < MaxCacheOps
    /\ cinst[i].status = "ready"
    /\ \E url \in CacheUrls, lead_id \in CacheLeadIds, outcome \in SaveOutcomes :
        IF cinst[i].type # "dict"
        THEN /\ clast' = [op |-> "mark_processed", inst |-> i, url |-> url,
                          lead_id |-> lead_id, raised |-> "TypeError", save |-> "none"]
             /\ UNCHANGED <<cfile, cinst, chist>>
        ELSE LET items == mark_processed(cinst[i].items, url, lead_id)
                 saved == _save_cache(items, cfile, outcome)
             IN  /\ cinst' = Stale([cinst EXCEPT ![i].items = items], i)
                 /\ cfile' = saved.file
                 /\ clast' = [op |-> "mark_processed", inst |-> i, url |-> url,
                              lead_id |-> lead_id, raised |-> saved.raised,
                              save |-> outcome]
                 /\ chist' = [ writers |-> chist.writers \cup {i},
                               marked |-> [chist.marked EXCEPT ![i] =
                                              @ \cup {normalize_url(url)}] ]
    /\ cops' = cops + 1
    /\ UNCHANGED <<normVars, scoreVars, pipeVars, batchVars, stageVars>>

\* remove(url): nothing happens unless the domain is in the cache
Remove(i) ==
    /\ cops < MaxCacheOps
    /\ cinst[i].status = "ready"
    /\ \E url \in CacheUrls, outcome \in SaveOutcomes :
        IF cinst[i].type = "dict" /\ is_processed(cinst[i].items, url)
        THEN LET items == [d \in DOMAIN cinst[i].items \ {normalize_url(url)} |->
                              cinst[i].items[d]]
                 saved == _save_cache(items, cfile, outcome)
             IN  /\ cinst' = Stale([cinst EXCEPT ![i].items = items], i)
                 /\ cfile' = saved.file
                 /\ clast' = [op |-> "remove", inst |-> i, url |-> url,
                              lead_id |-> "", raised |-> saved.raised, save |-> outcome]
                 /\ chist' = [ writers |-> chist.writers \cup {i},
                               marked |-> [chist.marked EXCEPT ![i] =
                                              @ \ {normalize_url(url)}] ]
        ELSE /\ clast' = [op |-> "remove", inst |-> i, url |-> url,
                          lead_id |-> "", raised |-> "none", save |-> "none"]
             /\ UNCHANGED <<cfile, cinst, chist>>
    /\ cops' = cops + 1
    /\ UNCHANGED <<normVars, scoreVars, pipeVars, batchVars, stageVars>>

\* clear()
Clear(i) ==
    /\ cops < MaxCacheOps
    /\ cinst[i].status = "ready"
    /\ \E outcome \in SaveOutcomes :
        LET saved == _save_cache(EmptyCache, cfile, outcome)
        IN  /\ cinst' = Stale([cinst EXCEPT ![i].items = EmptyCache,
                                            ![i].type = "dict"], i)
            /\ cfile' = saved.file
            /\ clast' = [op |-> "clear", inst |-> i, url |-> <<>>, lead_id |-> "",
                         raised |-> saved.raised, save |-> outcome]
            /\ chist' = [ writers |-> chist.writers \cup {i},
                          marked |-> [chist.marked EXCEPT ![i] = {}] ]
    /\ cops' = cops + 1
    /\ UNCHANGED <<normVars, scoreVars, pipeVars, batchVars, stageVars>>

CacheNext ==
    \E i \in 1..MaxInstances :
        \/ Construct(i)
        \/ MarkProcessed(i)
        \/ Remove(i)
        \/ Clear(i)

SpecCache == CacheInit /\ [][CacheNext]_vars

(***************************************************************************)
(* C12: after mark_processed(u, id) whose save wrote the backing file, the *)
(* instance answers get_lead_id(u) = id and is_processed(u) = True, and so *)
(* does every instance constructed afterwards from the same file.          *)
(***************************************************************************)
C12_RoundTrip ==
    (clast.op = "mark_processed" /\ clast.raised = "none" /\ clast.save = "saved")
        => /\ is_processed(cinst[clast.inst].items, clast.url)
           /\ get_lead_id(cinst[clast.inst].items, clast.url) = clast.lead_id
           /\ \A j \in 1..MaxInstances :
                (j # clast.inst /\ cinst[j].fresh)
                    => /\ cinst[j].status = "ready"
                       /\ cinst[j].type = "dict"
                       /\ is_processed(cinst[j].items, clast.url)
                       /\ get_lead_id(cinst[j].items, clast.url) = clast.lead_id

\* a url with scheme, "www." and path is marked and a second instance is
\* then constructed from the file
C12_Witness ==
    /\ clast.op = "mark_processed"
    /\ clast.save = "saved"
    /\ clast.url = UrlFull
    /\ \E j \in 1..MaxInstances :
        /\ j # clast.inst
        /\ cinst[j].fresh
        /\ get_lead_id(cinst[j].items, UrlBare) = clast.lead_id

(***************************************************************************)
(* C18 as stated: whichever step of persisting fails, a mutating call      *)
(* (mark_processed, remove, clear) on a cache that holds a mapping does    *)
(* not raise, and the cache in memory reflects the mutation.               *)
(***************************************************************************)
C18_BestEffortPersistence ==
    (clast.op \in {"mark_processed", "remove", "clear"} /\ clast.save # "none")
        => /\ clast.raised = "none"
           /\ clast.op = "mark_processed"
                => get_lead_id(cinst[clast.inst].items, clast.url) = clast.lead_id
           /\ clast.op = "remove" => ~is_processed(cinst[clast.inst].items, clast.url)
           /\ clast.op = "clear" => cinst[clast.inst].items = EmptyCache

\* the directory of the file cannot be created: mark_processed has changed
\* the cache in memory and raises
C18_MkdirRaises ==
    /\ clast.op = "mark_processed"
    /\ clast.save = "mkdir_raises"
    /\ clast.raised = "OSError"
    /\ get_lead_id(cinst[clast.inst].items, clast.url) = clast.lead_id

(***************************************************************************)
(* C19 as stated: constructing a DeduplicationCache never raises, and      *)
(* gives an empty cache when the file is absent and an empty, usable cache *)
(* (a mapping) when it is present but unreadable or corrupt, whether its   *)
(* content cannot be decoded or parses to something that is not a mapping. *)
(***************************************************************************)
C19_ConstructionNeverFails ==
    \A i \in 1..MaxInstances :
        /\ cinst[i].status # "failed"
        /\ (cinst[i].status = "ready" /\ cinst[i].fresh)
             => /\ cinst[i].type = "dict"
                /\ cfile.kind # "object" => cinst[i].items = EmptyCache

\* the file holds bytes that are not text: the constructor raises
C19_UndecodableRaises ==
    \E i \in 1..MaxInstances : cinst[i].status = "failed" /\ cfile.kind = "undecodable"

\* the file holds the JSON text []: the cache is a list, and mark_processed
\* on it raises
C19_ListCacheUnusable ==
    /\ clast.op = "mark_processed"
    /\ clast.raised = "TypeError"
    /\ cinst[clast.inst].type = "list"

\* The company of the lead being built
TheCompany == lead[1].company

RECURSIVE FirstTruthy(_)
FirstTruthy(answers) ==
    IF answers = <<>> THEN None
    ELSE IF Truthy(Head(answers)) THEN Head(answers)
    ELSE FirstTruthy(Tail(answers))

\* What the four sources of the claim answered in this run, in its order
CountrySources ==
    << observed.schema, observed.currency, observed.network,
       detect_country_from_tld(args.url) >>

(***************************************************************************)
(* C14 as stated: the final country of a returned lead is the answer of    *)
(* the highest-priority source that gave one, in the order storefront      *)
(* markup, storefront currency, network record, TLD.  (Runs whose country  *)
(* is none of these answers, i.e. came from the domain search, are left    *)
(* out.)                                                                   *)
(***************************************************************************)
C14_CountryPriority ==
    (/\ Returned
     /\ result = "lead"
     /\ \/ ~Truthy(TheCompany.country)
        \/ \E k \in 1..Len(CountrySources) : TheCompany.country = CountrySources[k])
        => TheCompany.country = FirstTruthy(CountrySources)

\* the page was read and has neither markup nor currency, the network
\* record carries GB, the TLD gives FR: the final country is FR
C14_TldBeatsNetwork ==
    /\ Returned
    /\ result = "lead"
    /\ ~Truthy(observed.schema)
    /\ ~Truthy(observed.currency)
    /\ observed.network = <<"G", "B">>
    /\ "verifier.detect_country_from_tld" \notin calls
    /\ TheCompany.country = <<"F", "R">>

(***************************************************************************)
(* C15 as stated: when the company was built with the storefront's own     *)
(* real-domain hint as its primary domain, the network enrichment does not *)
(* replace it, whatever website the network record carries.                *)
(***************************************************************************)
C15_PrimaryDomainKept ==
    [][ (pc = "network_enrich" /\ lead[1].company.primary_domain = StoreRealDomain)
            => lead'[1].company.primary_domain = StoreRealDomain ]_vars

\* the storefront gave r.de, which the domain search used; the network
\* record's website is https://www.li.co/about and the lead ends with li.co
C15_NetworkReplacesDomain ==
    /\ Returned
    /\ result = "lead"
    /\ domain = StoreRealDomain
    /\ TheCompany.primary_domain = <<"l", "i", ".", "c", "o">>

\* The contacts the domain search left for strategy 2
HunterContacts == IF hunter_data # <<>> THEN hunter_data[1].decision_makers ELSE <<>>

(***************************************************************************)
(* C16 as stated: the decision-maker stages run in the order employee      *)
(* search, domain-search contacts, website scrape, storefront e-mail; the  *)
(* decision maker is the top result of the first stage that yields one; a  *)
(* stage that raises counts as empty and the next stage is tried; once a   *)
(* decision maker is set no later step replaces the person, and the        *)
(* website scrape is not called when an earlier stage succeeded.           *)
(***************************************************************************)
C16_DecisionMakerCascade ==
    [][ /\ pc = "decision_makers"
            => /\ pc' = "alternative_sources"
               /\ lead'[1].decision_maker = <<>> => HunterContacts = <<>>
               /\ lead'[1].decision_maker # <<>>
                    => \/ lead'[1].decision_maker[1].name = NetworkPersonName
                       \/ /\ HunterContacts # <<>>
                          /\ lead'[1].decision_maker[1].name = HunterContacts[1].name
                          /\ lead'[1].decision_maker[1].email = HunterContacts[1].email
        /\ (pc = "alternative_sources" /\ lead[1].decision_maker = <<>>)
            => /\ "alt_source_finder.find_decision_makers_from_website" \in calls'
               /\ lead'[1].decision_maker = <<>> => ~Truthy(store_info[1].email)
               /\ lead'[1].decision_maker # <<>>
                    => \/ lead'[1].decision_maker[1].name = WebsitePersonName
                       \/ /\ lead'[1].decision_maker[1].name = StoreContactName
                          /\ lead'[1].decision_maker[1].email = store_info[1].email
        /\ (pc = "alternative_sources" /\ lead[1].decision_maker # <<>>)
            => "alt_source_finder.find_decision_makers_from_website" \notin calls'
        /\ (lead # <<>> /\ lead[1].decision_maker # <<>>)
            => /\ lead'[1].decision_maker # <<>>
               /\ lead'[1].decision_maker[1].name = lead[1].decision_maker[1].name
      ]_vars

\* the stage of the domain-search contacts raised and no later stage ran
C16_CascadeAborted ==
    /\ Returned
    /\ result = "raised"
    /\ HunterContacts # <<>>
    /\ HunterContacts[1].confidence = <<>>
    /\ lead[1].decision_maker = <<>>
    /\ "alt_source_finder.find_decision_makers_from_website" \notin calls

\* The decision maker of the lead being built
TheDm == lead[1].decision_maker[1]

HasVerifiedEmail(dm) == Truthy(dm.email) /\ dm.email_verified

\* The decision maker after a lookup that answered l, as the claim has it
AfterLookup(dm, l) ==
    IF Truthy(l.email)
    THEN [dm EXCEPT !.email = l.email, !.email_verified = (l.status = "valid")]
    ELSE dm

(***************************************************************************)
(* C17 as stated: in the e-mail step, a decision maker with a verified     *)
(* e-mail is left unchanged and no lookup is made; otherwise the lookup is *)
(* queried, an e-mail it returns replaces the decision maker's and         *)
(* email_verified becomes the deliverability result, and the decision      *)
(* maker is unchanged when the lookup returns nothing.                     *)
(***************************************************************************)
C17_LookupUnlessVerified ==
    [][ (pc = "find_email" /\ lead[1].decision_maker # <<>>)
            => IF HasVerifiedEmail(TheDm)
               THEN /\ observed'.lookup = <<>>
                    /\ calls' = calls
                    /\ lead' = lead
               ELSE /\ observed'.lookup # <<>>
                    /\ lead'[1].decision_maker
                         = <<AfterLookup(TheDm, observed'.lookup[1])>> ]_vars

(***************************************************************************)
(* C17: in the e-mail step, a decision maker with a verified e-mail is     *)
(* left unchanged and no lookup is made.  Otherwise the lookup is queried  *)
(* exactly when a usable domain is known (non-empty, not a myshopify.com   *)
(* one) and the decision maker's name is not blank; then an e-mail it      *)
(* returns replaces the decision maker's and email_verified becomes the    *)
(* deliverability result (False when the check errors), and the decision   *)
(* maker is unchanged when it returns nothing.  Without a usable domain or *)
(* a name no lookup is made and the decision maker is unchanged.           *)
(***************************************************************************)
C17_EmailResolution ==
    [][ (pc = "find_email" /\ lead[1].decision_maker # <<>>)
            => /\ pc' = "score"
               /\ IF HasVerifiedEmail(TheDm)
                  THEN /\ observed'.lookup = <<>>
                       /\ calls' = calls
                       /\ lead' = lead
                  ELSE IF DomainUsable(domain) /\ StrStrip(TheDm.name) # <<>>
                  THEN /\ observed'.lookup # <<>>
                       /\ "email_finder.enrich_decision_maker" \in calls'
                       /\ lead'[1].decision_maker
                            = <<AfterLookup(TheDm, observed'.lookup[1])>>
                  ELSE /\ observed'.lookup = <<>>
                       /\ lead' = lead ]_vars

\* the lookup returned an e-mail and the deliverability check errored
C17_Witness ==
    /\ Returned
    /\ result = "lead"
    /\ observed.lookup # <<>>
    /\ Truthy(observed.lookup[1].email)
    /\ observed.lookup[1].status = "error"
    /\ TheDm.email = observed.lookup[1].email
    /\ ~TheDm.email_verified

\* a decision maker without a verified e-mail and no lookup: the only
\* domain known is a myshopify.com one
C17_NoLookupWithoutDomain ==
    /\ Returned
    /\ result = "lead"
    /\ lead[1].decision_maker # <<>>
    /\ ~HasVerifiedEmail(TheDm)
    /\ ~DomainUsable(domain)
    /\ "email_finder.enrich_decision_maker" \notin calls

(***************************************************************************)
(* process_urls: the batch driver.  One call of process_url is one step;   *)
(* its outcomes are those the single-call specification reaches.           *)
(***************************************************************************)
MaxBatch == 3

\* str(uuid.uuid4())[:8] of the lead built for the i-th candidate
BatchLeadId(i) == "lead-" \o ToString(i)

BatchLead(url, i) == [ source_url |-> url, lead_id |-> BatchLeadId(i) ]

\* a cache check that looks the url up as it was written
ProcessUrlOutcomes_rawKey(c, url, force) ==
    IF ~force /\ url \in DOMAIN c
    THEN {"skipped"}
    ELSE {"rejected", "raised", "raised_in_commit", "lead"}

\* What process_url(url, force=force) can do with the cache c: return None
\* on a cache hit ("skipped") or a rejection ("rejected"), raise before the
\* cache is touched ("raised"), raise from the save after the entry was set
\* ("raised_in_commit"), or return the lead ("lead").
ProcessUrlOutcomes(c, url, force) ==
    IF ~force /\ is_processed(c, url)
    THEN {"skipped"}
    ELSE {"rejected", "raised", "raised_in_commit", "lead"}

\* the cache after process_url ended with that outcome
CacheAfter(c, url, i, outcome) ==
    IF outcome \in {"lead", "raised_in_commit"}
    THEN mark_processed(c, url, BatchLeadId(i))
    ELSE c

BatchUrlLists == UNION { [1..k -> CacheUrls] : k \in 0..MaxBatch }

BatchInit ==
    /\ NormIdle
    /\ ScoreIdle
    /\ PipeIdle
    /\ CacheIdle
    /\ StageIdle
    /\ burls \in BatchUrlLists
    /\ bforce \in BOOLEAN
    /\ bnext = 0
    /\ bleads = <<>>
    /\ blog = <<>>
    /\ bcache \in InitialCaches
    /\ bcache0 = bcache
    /\ bpc = "loop"

\* an exception of one candidate ends the whole call
BatchCandidate_aborting ==
    /\ bpc = "loop"
    /\ bnext < Len(burls)
    /\ LET i == bnext + 1
           url == burls[i]
       IN  \E outcome \in ProcessUrlOutcomes(bcache, url, bforce) :
             /\ bcache' = CacheAfter(bcache, url, i, outcome)
             /\ bleads' = IF outcome = "lead"
                          THEN Append(bleads, BatchLead(url, i)) ELSE bleads
             /\ blog' = Append(blog, [ url |-> url, outcome |-> outcome,
                                       logged |-> outcome \in {"raised", "raised_in_commit"} ])
             /\ bnext' = i
             /\ bpc' = IF outcome \in {"raised", "raised_in_commit"}
                       THEN "returned" ELSE "loop"
    /\ UNCHANGED <<burls, bforce, bcache0>>
    /\ UNCHANGED <<normVars, scoreVars, pipeVars, cacheVars, stageVars>>

\* one turn of `for url in urls`: the try around process_url, the append
\* of a truthy lead, the logger.error of the except clause
BatchCandidate ==
    /\ bpc = "loop"
    /\ bnext < Len(burls)
    /\ LET i == bnext + 1
           url == burls[i]
       IN  \E outcome \in ProcessUrlOutcomes(bcache, url, bforce) :
             /\ bcache' = CacheAfter(bcache, url, i, outcome)
             /\ bleads' = IF outcome = "lead"
                          THEN Append(bleads, BatchLead(url, i)) ELSE bleads
             /\ blog' = Append(blog, [ url |-> url, outcome |-> outcome,
                                       logged |-> outcome \in {"raised", "raised_in_commit"} ])
             /\ bnext' = i
    /\ UNCHANGED <<burls, bforce, bpc, bcache0>>
    /\ UNCHANGED <<normVars, scoreVars, pipeVars, cacheVars, stageVars>>

\* `return leads` once the loop is exhausted
BatchReturn ==
    /\ bpc = "loop"
    /\ bnext = Len(burls)
    /\ bpc' = "returned"
    /\ UNCHANGED <<burls, bforce, bnext, bleads, blog, bcache, bcache0>>
    /\ UNCHANGED <<normVars, scoreVars, pipeVars, cacheVars, stageVars>>

BatchNext ==
    \/ BatchCandidate
    \/ BatchReturn

SpecBatch == BatchInit /\ [][BatchNext]_vars

\* the leads of the first n candidates that ended with a lead, in order
RECURSIVE CompletedLeads(_, _)
CompletedLeads(log, n) ==
    IF n = 0 THEN <<>>
    ELSE IF log[n].outcome = "lead"
         THEN Append(CompletedLeads(log, n - 1), BatchLead(log[n].url, n))
         ELSE CompletedLeads(log, n - 1)

(***************************************************************************)
(* C20: process_urls handles the candidates one at a time in input order:  *)
(* the k-th call of process_url is for the k-th url.  A candidate whose     *)
(* processing raised is logged and the loop goes on, so the call returns   *)
(* only after every candidate was processed, and the list it returns holds *)
(* exactly the leads of the candidates that ended with a lead, in input    *)
(* order.                                                                  *)
(***************************************************************************)
C20_BatchIsolationOrder ==
    /\ Len(blog) = bnext
    /\ bnext <= Len(burls)
    /\ \A k \in 1..Len(blog) :
         /\ blog[k].url = burls[k]
         /\ blog[k].logged = (blog[k].outcome \in {"raised", "raised_in_commit"})
    /\ bleads = CompletedLeads(blog, Len(blog))
    /\ bpc = "returned" => bnext = Len(burls)

\* a batch that returned, in which a candidate raised and a later one
\* gave a lead
C20_Witness ==
    /\ bpc = "returned"
    /\ \E j \in 1..Len(blog), k \in 1..Len(blog) :
         /\ j < k
         /\ blog[j].outcome \in {"raised", "raised_in_commit"}
         /\ blog[k].outcome = "lead"
         /\ bleads # <<>>
         /\ bleads[Len(bleads)].source_url = burls[k]

\* the domains the backing file holds
StoredDomains == IF cfile.kind = "object" THEN DOMAIN cfile.members ELSE {}

(***************************************************************************)
(* C21: every successful save rewrites the whole backing store from the   *)
(* memory of the instance that saved, so what another instance had stored  *)
(* and this one never loaded is gone.  With a single writer, after each    *)
(* successful save the store holds every domain that writer marked (and    *)
(* has not removed since).                                                 *)
(***************************************************************************)
C21_WholeStoreRewrite ==
    (clast.op # "none" /\ clast.save = "saved")
        => /\ cfile = json_dump(cinst[clast.inst].items)
           /\ chist.writers = {clast.inst}
                => chist.marked[clast.inst] \subseteq StoredDomains

\* the lost update: two instances loaded the same store, each marked a
\* different domain and saved, and the store holds only the later entry
C21_LostUpdate ==
    /\ chist.writers = {1, 2}
    /\ clast.op = "mark_processed" /\ clast.save = "saved"
    /\ \E d1 \in chist.marked[1], d2 \in chist.marked[2] :
         /\ d1 # d2
         /\ d1 \in DOMAIN cinst[1].items /\ d1 \notin DOMAIN cinst[2].items
         /\ d2 \in DOMAIN cinst[2].items /\ d2 \notin DOMAIN cinst[1].items
         /\ Cardinality(StoredDomains \cap {d1, d2}) = 1

\* the lead as it is before any scoring
Unscored(l) == [l EXCEPT !.qualification = DefaultQualification]

TablePlatform(l) == IF l.company.platform = "shopify" THEN 20 ELSE 0

TableSize(l) ==
    LET emp == l.company.employee_count
    IN  IF emp = <<>> THEN 0
        ELSE IF 20 <= emp[1] /\ emp[1] <= 50 THEN 15
        ELSE IF 10 <= emp[1] /\ emp[1] <= 200 THEN 10
        ELSE 0

TableGeography(l) ==
    IF l.company.country # None /\ StrUpper(l.company.country) \in TARGET_COUNTRIES
    THEN 15 ELSE 0

TablePresence(l) ==
    IF (l.company.shopify_url # None /\ l.company.shopify_url # <<>>)
       \/ l.company.platform = "shopify"
    THEN 10 ELSE 0

TableNoDisqualifier(l) ==
    IF l.company.description # None
       /\ \E i \in 1..Len(rx_terms) :
              StrContains(StrLower(l.company.description), rx_terms[i])
    THEN 0 ELSE 15

TableDecisionMaker(l) ==
    IF l.decision_maker # <<>> /\ l.decision_maker[1].name # <<>>
       /\ l.decision_maker[1].name # None
    THEN 10 ELSE 0

TableEmailVerified(l) ==
    IF l.decision_maker # <<>> /\ l.decision_maker[1].email_verified THEN 5 ELSE 0

TableScore(l) ==
    TablePlatform(l) + TableSize(l) + TableGeography(l) + TablePresence(l)
        + TableNoDisqualifier(l) + TableDecisionMaker(l) + TableEmailVerified(l)

\* target platform, 30 employees, target country, decision maker with a
\* verified e-mail, no disqualifying keyword
FullyEnriched(l) ==
    /\ l.company.platform = "shopify"
    /\ l.company.employee_count = <<30>>
    /\ TableGeography(l) = 15
    /\ TableNoDisqualifier(l) = 15
    /\ TableDecisionMaker(l) = 10
    /\ TableEmailVerified(l) = 5

RequestDomain == normalize_url(args.url)

(***************************************************************************)
(* C24: with force = True a domain that is already in the cache is not     *)
(* skipped: the call goes on to the verifier.  When such a call returns    *)
(* its lead, the cache has the same keys as before, and the one entry of   *)
(* the domain carries the identifier of the new lead instead of the old    *)
(* one.                                                                    *)
(***************************************************************************)
C24_ForcedLastWriteWins ==
    (pc # "idle" /\ args.force /\ RequestDomain \in DOMAIN cache0)
        => /\ result # "skipped"
           /\ pc # "verify" => "verifier.verify" \in calls
           /\ (Returned /\ result = "lead")
                => /\ DOMAIN cache = DOMAIN cache0
                   /\ Cardinality(DOMAIN cache) = Cardinality(DOMAIN cache0)
                   /\ cache[RequestDomain].lead_id = lead[1].lead_id
                   /\ get_lead_id(cache, args.url) = NewLeadId
                   /\ "scorer.score" \in calls

\* a forced run of a cached domain that returned a lead with a new id
C24_Witness ==
    /\ Returned
    /\ result = "lead"
    /\ args.force
    /\ args.url # RequestDomain
    /\ RequestDomain \in DOMAIN cache0
    /\ cache0[RequestDomain].lead_id # NewLeadId
    /\ cache[RequestDomain].lead_id = NewLeadId

(***************************************************************************)
(* The stages of the decision-maker cascade, each on its own:              *)
(* AlternativeSourceFinder.find_decision_makers_from_website,              *)
(* LinkedInFinder.find_decision_makers, EmailFinder.domain_search.         *)
(***************************************************************************)
MaxPages == 3

MaxEmployees == 3

MaxEmails == 3

\* unique_dms[:5]
MaxWebsiteResults == 5

NameAl == <<"A", "l">>

NameAlShout == <<"A", "L">>

NameBo == <<"B", "o">>

NameCy == <<"C", "y">>

NameDi == <<"D", "i">>

NameEd == <<"E", "d">>

NameFu == <<"F", "u">>

TitleCeo == <<"C", "E", "O">>

TitleSales == <<"S", "a", "l", "e", "s">>

\* DecisionMaker(name=name, title=title)
Person(name) == [ name |-> name, title |-> TitleCeo ]

\* what _scrape_team_page returns for one page
TeamPages ==
    { <<>>,
      <<Person(NameAl)>>,
      <<Person(NameAlShout), Person(NameBo)>>,
      <<Person(NameBo), Person(NameCy), Person(NameAl)>>,
      <<Person(NameDi), Person(NameEd), Person(NameFu), Person(NameCy)>>,
      <<Person(NameAl), Person(NameBo), Person(NameCy), Person(NameDi),
        Person(NameEd), Person(NameFu)>> }

\* what _find_from_schema returns: None or one person
SchemaPersons == { <<>>, <<Person(NameAl)>>, <<Person(NameFu)>> }

\* the items of the employee dataset; name is <<>> when the key is missing
Employees == { [name |-> n, title |-> TitleCeo] : n \in {<<>>, NameAl, NameAlShout, NameBo} }

\* the e-mail records of the domain-search answer
EmailRecords ==
    { [first_name |-> NameAl, last_name |-> NameBo, position |-> TitleCeo],
      [first_name |-> NameAlShout, last_name |-> NameBo, position |-> TitleCeo],
      [first_name |-> NameCy, last_name |-> <<>>, position |-> TitleCeo],
      [first_name |-> NameAl, last_name |-> NameBo, position |-> TitleSales] }

executive_titles ==
    << <<"c", "e", "o">>, <<"f", "o", "u", "n", "d", "e", "r">>, <<"o", "w", "n", "e", "r">>,
       <<"d", "i", "r", "e", "c", "t", "o", "r">>,
       <<"p", "r", "e", "s", "i", "d", "e", "n", "t">>, <<"c", "h", "i", "e", "f">>,
       <<"h", "e", "a", "d">> >>

Take(list, n) == SubSeq(list, 1, IF Len(list) < n THEN Len(list) ELSE n)

\* decision_makers after the schema lookup and the loop over the team
\* pages, which stops once three or more people are collected
RECURSIVE ScrapePages(_, _, _)
ScrapePages(acc, pages, i) ==
    IF i > Len(pages) THEN acc
    ELSE LET more == acc \o pages[i]
         IN  IF Len(more) >= 3 THEN more ELSE ScrapePages(more, pages, i + 1)

Discovered(input) == ScrapePages(input.schema, input.pages, 1)

\* the loop over decision_makers with seen_names
RECURSIVE UniqueByName(_, _, _)
UniqueByName(dms, i, seen_names) ==
    IF i > Len(dms) THEN <<>>
    ELSE LET name_lower == StrLower(dms[i].name)
         IN  IF name_lower \notin seen_names
             THEN <<dms[i]>> \o UniqueByName(dms, i + 1, seen_names \cup {name_lower})
             ELSE UniqueByName(dms, i + 1, seen_names)

find_decision_makers_from_website(input) ==
    Take(UniqueByName(Discovered(input), 1, {}), MaxWebsiteResults)

NameUnknown == <<"U", "n", "k", "n", "o", "w", "n">>

\* LinkedInFinder.find_decision_makers: one DecisionMaker per dataset item
find_decision_makers(employees) ==
    [ i \in 1..Len(employees) |->
        [ name |-> IF employees[i].name = <<>> THEN NameUnknown ELSE employees[i].name,
          title |-> employees[i].title ] ]

\* the decision_makers of domain_search: the records whose position holds
\* an executive title, named "first last" stripped
RECURSIVE domain_search_contacts(_, _)
domain_search_contacts(emails, i) ==
    IF i > Len(emails) THEN <<>>
    ELSE LET position == StrLower(emails[i].position)
             name == StrStrip(emails[i].first_name \o <<" ">> \o emails[i].last_name)
         IN  (IF \E t \in 1..Len(executive_titles) : StrContains(position, executive_titles[t])
              THEN << [name |-> name, title |-> emails[i].position] >>
              ELSE <<>>)
             \o domain_search_contacts(emails, i + 1)

SeqsUpTo(S, n) == UNION { [1..k -> S] : k \in 0..n }

StageInit ==
    /\ NormIdle
    /\ ScoreIdle
    /\ PipeIdle
    /\ CacheIdle
    /\ BatchIdle
    /\ gpc = "called"
    /\ gresult = <<>>
    /\ \/ /\ gkind = "website"
          /\ \E schema \in SchemaPersons, pages \in SeqsUpTo(TeamPages, MaxPages) :
               ginput = [NoStageInput EXCEPT !.schema = schema, !.pages = pages]
       \/ /\ gkind = "network"
          /\ \E employees \in SeqsUpTo(Employees, MaxEmployees) :
               ginput = [NoStageInput EXCEPT !.employees = employees]
       \/ /\ gkind = "domain_search"
          /\ \E emails \in SeqsUpTo(EmailRecords, MaxEmails) :
               ginput = [NoStageInput EXCEPT !.emails = emails]

WebsiteScrape ==
    /\ gpc = "called"
    /\ gkind = "website"
    /\ gresult' = find_decision_makers_from_website(ginput)
    /\ gpc' = "returned"
    /\ UNCHANGED <<gkind, ginput>>
    /\ UNCHANGED <<normVars, scoreVars, pipeVars, cacheVars, batchVars>>

NetworkEmployeeSearch ==
    /\ gpc = "called"
    /\ gkind = "network"
    /\ gresult' = find_decision_makers(ginput.employees)
    /\ gpc' = "returned"
    /\ UNCHANGED <<gkind, ginput>>
    /\ UNCHANGED <<normVars, scoreVars, pipeVars, cacheVars, batchVars>>

DomainSearchContacts ==
    /\ gpc = "called"
    /\ gkind = "domain_search"
    /\ gresult' = domain_search_contacts(ginput.emails, 1)
    /\ gpc' = "returned"
    /\ UNCHANGED <<gkind, ginput>>
    /\ UNCHANGED <<normVars, scoreVars, pipeVars, cacheVars, batchVars>>

StageNext ==
    \/ WebsiteScrape
    \/ NetworkEmployeeSearch
    \/ DomainSearchContacts

SpecStages == StageInit /\ [][StageNext]_vars

NoDuplicateNames(list) ==
    \A i \in 1..Len(list), j \in 1..Len(list) :
        i # j => StrLower(list[i].name) # StrLower(list[j].name)

\* the people of the list whose name no earlier one carries, in order
FirstOccurrences(list) ==
    LET first(i) == \A j \in 1..(i - 1) : StrLower(list[j].name) # StrLower(list[i].name)
        F[i \in 0..Len(list)] ==
            IF i = 0 THEN <<>>
            ELSE IF first(i) THEN Append(F[i - 1], list[i]) ELSE F[i - 1]
    IN  F[Len(list)]

(***************************************************************************)
(* C25: the list every stage of the cascade returns (network employee      *)
(* search, domain-search contacts, website scrape) has no two people with  *)
(* the same case-folded name and at most 5 entries; the website scrape     *)
(* returns the first occurrence of each name, in discovery order, cut to 5.*)
(***************************************************************************)
C25_PerStageDedup ==
    gpc = "returned"
        => /\ NoDuplicateNames(gresult)
           /\ Len(gresult) <= 5
           /\ gkind = "website"
                => gresult = Take(FirstOccurrences(Discovered(ginput)), 5)

\* the part of the claim that is about the website scrape
C25_WebsiteDedup ==
    (gpc = "returned" /\ gkind = "website")
        => /\ NoDuplicateNames(gresult)
           /\ Len(gresult) <= 5
           /\ gresult = Take(FirstOccurrences(Discovered(ginput)), 5)

\* the network stage returned the same person twice
C25_NetworkDuplicates ==
    /\ gpc = "returned"
    /\ gkind = "network"
    /\ Len(gresult) = 2
    /\ gresult[1].name = NameAl
    /\ gresult[2].name = NameAl

\* the domain search returned two contacts whose names differ only in case
C25_ContactDuplicates ==
    /\ gpc = "returned"
    /\ gkind = "domain_search"
    /\ Len(gresult) = 2
    /\ gresult[1].name # gresult[2].name
    /\ StrLower(gresult[1].name) = StrLower(gresult[2].name)

\* the website scrape dropped a repeated name and cut the list to 5
C25_WebsiteCut ==
    /\ gpc = "returned"
    /\ gkind = "website"
    /\ Len(gresult) = 5
    /\ Len(FirstOccurrences(Discovered(ginput))) > 5
    /\ Len(Discovered(ginput)) > Len(FirstOccurrences(Discovered(ginput)))

FilledFields == {"name", "country", "industry", "description", "primary_domain", "linkedin_url"}

(***************************************************************************)
(* C26: within one run of process_url, a Company field among name,         *)
(* country, industry, description, primary domain and network URL that is  *)
(* non-empty before a stage is non-empty after it; in particular the       *)
(* industry filled by the domain search survives the network enrichment.   *)
(***************************************************************************)
C26_IncrementalFill ==
    [][ (lead # <<>> /\ lead' # <<>>)
            => \A f \in FilledFields :
                   Truthy(lead[1].company[f]) => Truthy(lead'[1].company[f]) ]_vars

\* the domain search filled the industry, and the network has a record
\* without an industry for this company
C26_IndustryAboutToReset ==
    /\ pc = "network_enrich"
    /\ "email_finder.domain_search" \in calls
    /\ Truthy(lead[1].company.industry)
    /\ \E data \in LinkedInData :
         /\ ~enrich_company(lead[1].company, data).raised
         /\ ~Truthy(enrich_company(lead[1].company, data).company.industry)

\* the call wrote the entry of the request's domain for the lead it built
WroteEntry ==
    /\ marks = 1
    /\ lead # <<>>
    /\ RequestDomain \in DOMAIN cache
    /\ cache[RequestDomain].lead_id = lead[1].lead_id

(***************************************************************************)
(* C27: a call of process_url returns a lead if and only if it wrote the   *)
(* cache entry of the normalized url with that lead's identifier; a call   *)
(* that returns no lead because of a cache hit, a platform mismatch or a   *)
(* category rejection leaves the cache and the backing store as they were. *)
(***************************************************************************)
C27_LeadIffEntry ==
    Returned
        => /\ (result = "lead") <=> WroteEntry
           /\ result \in {"skipped", "rejected_platform", "rejected_category"}
                => /\ cache = cache0
                   /\ disk = [readable |-> TRUE, content |-> cache0]

\* what holds of the claim: a returned lead has its entry, and the calls
\* that end without a lead and without an exception write nothing
C27_LeadHasEntry ==
    Returned
        => /\ result = "lead" => WroteEntry
           /\ result \in {"skipped", "rejected_platform", "rejected_category"}
                => /\ marks = 0
                   /\ cache = cache0
                   /\ disk = [readable |-> TRUE, content |-> cache0]

\* the entry was written and the call ended with an exception instead of
\* the lead
C27_EntryWithoutLead ==
    /\ Returned
    /\ result = "raised_in_commit"
    /\ WroteEntry
    /\ ~is_processed(cache0, args.url)
    /\ get_lead_id(cache, args.url) = NewLeadId

\* the normalized domain of the k-th candidate
BatchDomain(k) == normalize_url(burls[k])

(***************************************************************************)
(* C28: in a batch with force = False no two returned leads come from urls *)
(* with the same normalized domain, and none comes from a url whose        *)
(* domain was in the cache when the batch started; a candidate is skipped  *)
(* only when its domain was in the starting cache or an earlier candidate  *)
(* of the batch wrote it, so a domain that was only rejected before is     *)
(* attempted again.                                                        *)
(***************************************************************************)
C28_NoDuplicateDomains ==
    ~bforce
        => /\ \A i \in 1..Len(bleads), j \in 1..Len(bleads) :
                i # j => normalize_url(bleads[i].source_url)
                            # normalize_url(bleads[j].source_url)
           /\ \A i \in 1..Len(bleads) :
                normalize_url(bleads[i].source_url) \notin DOMAIN bcache0
           /\ \A k \in 1..Len(blog) :
                (blog[k].outcome = "skipped")
                    <=> \/ BatchDomain(k) \in DOMAIN bcache0
                        \/ \E j \in 1..(k - 1) :
                             /\ BatchDomain(j) = BatchDomain(k)
                             /\ blog[j].outcome \in {"lead", "raised_in_commit"}

\* one domain written three ways: rejected, then attempted again and
\* returned as a lead, then skipped
C28_Witness ==
    /\ bpc = "returned"
    /\ ~bforce
    /\ Len(blog) = 3
    /\ BatchDomain(1) = BatchDomain(2) /\ BatchDomain(2) = BatchDomain(3)
    /\ burls[1] # burls[2]
    /\ blog[1].outcome = "rejected"
    /\ blog[2].outcome = "lead"
    /\ blog[3].outcome = "skipped"
    /\ Len(bleads) = 1

(***************************************************************************)
(* C29: when SCORE runs, and from then on, a decision maker whose          *)
(* email_verified flag is true has a non-empty e-mail, so the              *)
(* email-verified weight is only awarded for an actual address.            *)
(***************************************************************************)
C29_VerifiedImpliesPresent ==
    (pc \in {"score", "outreach", "commit", "returned"}
     /\ lead # <<>> /\ lead[1].decision_maker # <<>>
     /\ lead[1].decision_maker[1].email_verified)
        => Truthy(lead[1].decision_maker[1].email)

\* a returned lead that was awarded the email-verified weight and whose
\* decision maker has no e-mail: the domain-search contact had a
\* confidence above 80 and no e-mail value, and the lookup found nothing
C29_VerifiedWithoutEmail ==
    /\ Returned
    /\ result = "lead"
    /\ lead[1].decision_maker # <<>>
    /\ lead[1].decision_maker[1].email_verified
    /\ lead[1].decision_maker[1].email = None
    /\ "email_verified" \in DOMAIN lead[1].qualification.scoring_breakdown
    /\ observed.lookup # <<>>
    /\ observed.lookup[1].email = None

(***************************************************************************)
(* C30: the domain given to the e-mail lookup is the one that was given to *)
(* the domain search - the storefront's real domain, else the domain of    *)
(* the request - whatever primary domain the network enrichment has put on *)
(* the company since; it never contains myshopify.com; and when the only   *)
(* domain known is a myshopify.com one, neither the domain search nor the  *)
(* e-mail lookup is called.                                                *)
(***************************************************************************)
C30_LookupDomainFixed ==
    /\ observed.looked_up # <<>> => observed.looked_up = observed.searched
    /\ observed.searched # <<>>
         => /\ ~StrContains(observed.searched[1], MyshopifyCom)
            /\ observed.searched[1] \in {StoreRealDomain, _extract_domain(args.url)}
            /\ observed.searched[1] = domain
    /\ ("email_finder.domain_search" \in calls) <=> (observed.searched # <<>>)
    /\ ("email_finder.enrich_decision_maker" \in calls) <=> (observed.looked_up # <<>>)
    /\ (pc \notin {"idle", "verify", "validate", "extract", "domain_search"}
        /\ lead # <<>> /\ StrContains(domain, MyshopifyCom))
         => /\ "email_finder.domain_search" \notin calls
            /\ "email_finder.enrich_decision_maker" \notin calls

\* the lookup asked for the request's domain although the network
\* enrichment had put another primary domain on the company
C30_Witness ==
    /\ Returned
    /\ result = "lead"
    /\ observed.looked_up # <<>>
    /\ observed.looked_up = observed.searched
    /\ observed.looked_up[1] = _extract_domain(args.url)
    /\ Truthy(lead[1].company.primary_domain)
    /\ lead[1].company.primary_domain # observed.looked_up[1]

\* a store known only by its myshopify.com address: no search, no lookup,
\* although the network gave the company a primary domain
C30_GenericDomainOnly ==
    /\ Returned
    /\ result = "lead"
    /\ StrContains(domain, MyshopifyCom)
    /\ Truthy(lead[1].company.primary_domain)
    /\ lead[1].decision_maker # <<>>
    /\ "email_finder.domain_search" \notin calls
    /\ "email_finder.enrich_decision_maker" \notin calls

=============================================================================
